---------------------------- MODULE Spec2Model ----------------------------
(***************************************************************************)
(* The research agent of ai-news-tracker: ResearchAgentService.search,     *)
(* its fallback fan-out and search_source                                  *)
(* (backend/app/services/research_agent/agent.py), the tool registry       *)
(* (tools/__init__.py, schemas.py) and the nine tool providers (tools/).   *)
(*                                                                         *)
(* The first part follows one request at a time through the one service   *)
(* object, a step being the code between two awaits; what a request in     *)
(* flight beside it does to the service object is OtherSearchArrives, and  *)
(* requests in flight together, each with its frame, are further below.    *)
(* The LLM and the outbound requests of the providers are the environment: *)
(* an LLM call fails, answers with no choice, answers with text or asks    *)
(* for tool calls; an outbound request of a provider succeeds or fails.    *)
(***************************************************************************)
EXTENDS Integers, Sequences, FiniteSets, TLC

(* agent.py:24 *)
MAX_ITERATIONS == 5

(* Bounds of the model: tool-call requests in one assistant turn, and       *)
(* tool-call requests in one search request.                                *)
MaxCallsPerTurn == 2
MaxToolCalls == 5

(* Further bounds of one search request: the passes of the loop whose reply *)
(* may carry a text beside its tool requests (the first MaxTextPasses), the *)
(* tool turns that carry an error or an empty list before the upstream      *)
(* services answer every call with entries, and the requests of the LLM     *)
(* that name a tool of the available-tool map.                              *)
MaxTextPasses == 1
MaxFaults == 1
MaxProviderCalls == 2

VARIABLES
    settings,        \* config.settings: which API keys are set (non-empty)
    available,       \* ARXIV_AVAILABLE, WIKIPEDIA_AVAILABLE, TAVILY_AVAILABLE, YOUTUBE_AVAILABLE
    initialized,     \* ResearchAgentService._initialized
    client,          \* ResearchAgentService._client is an AsyncGroq object
    pc,              \* position of the current request
    op,              \* "search" or "search_source"
    query,           \* the request's query
    source,          \* the source name given to search_source
    iteration,       \* completed passes of `for _ in range(MAX_ITERATIONS)`
    func_map,        \* names in func_map (the advertised schemas have the same names)
    messages,        \* the conversation
    all_sources,     \* the sources dict of search()
    tool_calls,      \* msg.tool_calls of the current assistant turn
    idx,             \* index in tool_calls of the request executed next
    outcome,         \* what the request returned
    llm_tool_calls,  \* chat.completions.create calls made with tools=, this request
    llm_plain_calls, \* chat.completions.create calls made without tools, this request
    tool_replies,    \* replies of the LLM that asked for tool calls, this request
    provider_calls,  \* calls dispatched to the executor, this request
    dispatched       \* source key -> arguments of the latest call of its provider, this request

agent_vars == << settings, available, initialized, client, pc, op, query, source,
                 iteration, func_map, messages, all_sources, tool_calls, idx, outcome,
                 llm_tool_calls, llm_plain_calls, tool_replies, provider_calls,
                 dispatched >>

(* The worker pool of the service: ThreadPoolExecutor(max_workers=3). *)
VARIABLES
    callers,         \* the requests that dispatch provider calls: position, tasks left
    submitted,       \* the calls handed to run_in_executor so far (call n is the n-th)
    work_queue,      \* executor -> its calls no worker thread has taken yet, oldest first
    threads,         \* executor -> worker threads it has started
    idle_semaphore,  \* executor -> value of its _idle_semaphore
    running,         \* calls a worker thread is executing
    stalled,         \* running calls whose upstream never answers
    reporting,       \* executor -> its threads between the return of their call
                     \* and the release of the semaphore
    finished         \* calls that returned: their future is done

pool_vars == << callers, submitted, work_queue, threads, idle_semaphore, running,
               stalled, reporting, finished >>

(* Two search requests in flight on the one service object. *)
VARIABLES
    heap,            \* the dict and list objects the requests allocated, by identity
    frames           \* the frame of each request: its position and its local variables

conc_vars == << heap, frames >>

(* search_anthropic on one fetched page. *)
VARIABLES
    page,            \* the links of the page, in document order
    an_query,        \* the query argument
    an_max_results,  \* the max_results argument
    an_results       \* the returned list

anthropic_vars == << page, an_query, an_max_results, an_results >>

(* The abstract field of arXiv, Semantic Scholar and trending-papers records. *)
VARIABLES
    paper_source,    \* which of the three providers builds the record
    summary,         \* the text the upstream service returned for the paper
    abstract         \* the abstract field of the record

abstract_vars == << paper_source, summary, abstract >>

(* The bookmark routes on the articles and bookmarks tables. *)
VARIABLES
    db,              \* the committed rows of articles and bookmarks
    tx,              \* the open write transaction: its session and its uncommitted rows
    sessions         \* the request of each database session: its position and locals

bookmark_vars == << db, tx, sessions >>

(* deduplicate_articles followed by save_articles, twice. *)
VARIABLES
    batch,           \* the fetched articles
    unique_articles, \* what deduplicate_articles returned
    stored,          \* source_id of the committed rows of the articles table
    saves,           \* the frame of each save_articles call: its position and locals
    ingest_tx,       \* the open write transaction: its session and its uncommitted rows
    ingest_pc        \* position of the ingestion

ingest_vars == << batch, unique_articles, stored, saves, ingest_tx, ingest_pc >>

sub_vars == << pool_vars, conc_vars, anthropic_vars, abstract_vars, bookmark_vars,
               ingest_vars >>

vars == << agent_vars, sub_vars >>

-----------------------------------------------------------------------------
(* Python values, by shape. *)
None == "None"
EmptyList == "[]"
Records == "[records]"
ErrorList == "[{error}]"
TavilyDict == "{answer, results}"
ErrorDict == "{error}"

(* d[k] = v on a Python dict: the key is added when it is not there. *)
DictSet(d, k, v) == [x \in (DOMAIN d) \cup {k} |-> IF x = k THEN v ELSE d[x]]

-----------------------------------------------------------------------------
(* tools/__init__.py *)
AI_ML_CONTEXT == "AI machine learning deep learning"
YOUTUBE_AI_ML_CONTEXT == "AI machine learning tutorial deep learning neural network"

add_ai_ml_context(q, src) ==
    IF src = "youtube" THEN q \o " " \o YOUTUBE_AI_ML_CONTEXT
    ELSE q \o " " \o AI_ML_CONTEXT

TOOL_TO_SOURCE_KEY ==
    [ search_arxiv            |-> "arxiv",
      search_wikipedia        |-> "wikipedia",
      search_web              |-> "tavily",
      search_youtube          |-> "youtube",
      search_semantic_scholar |-> "semantic_scholar",
      search_huggingface      |-> "huggingface",
      search_github           |-> "github",
      search_papers_with_code |-> "papers_with_code",
      search_anthropic        |-> "anthropic" ]

(* The keys of TOOL_FUNCTIONS; the function of a name is Provider below. *)
TOOL_FUNCTIONS == DOMAIN TOOL_TO_SOURCE_KEY

ALL_SOURCE_KEYS == { TOOL_TO_SOURCE_KEY[n] : n \in DOMAIN TOOL_TO_SOURCE_KEY }

(* schemas.py: the function names of TOOL_SCHEMAS, in order *)
TOOL_SCHEMAS ==
    << "search_arxiv", "search_wikipedia", "search_web", "search_youtube",
       "search_semantic_scholar", "search_huggingface", "search_github",
       "search_papers_with_code", "search_anthropic" >>

-----------------------------------------------------------------------------
(* The providers.  `up` is what the provider's outbound request meets:      *)
(* entries, an answer with no entry, or a failure; every failure of it is   *)
(* caught inside the provider.  A provider that builds a list returns the   *)
(* list it built, which is [] when there was no entry.                      *)
Upstream == {"hits", "no hits", "fails"}

ListOf(up) ==
    CASE up = "hits"    -> Records
      [] up = "no hits" -> EmptyList
      [] up = "fails"   -> ErrorList

search_arxiv(up) ==
    IF ~available.arxiv THEN ErrorList
    ELSE ListOf(up)

search_wikipedia(up) ==
    IF ~available.wikipedia THEN ErrorList
    ELSE ListOf(up)

(* The dict of lines 31-41 is returned with the results the answer has. *)
search_tavily(up) ==
    IF ~available.tavily THEN ErrorDict
    ELSE IF ~settings.tavily_api_key THEN ErrorDict
    ELSE IF up = "fails" THEN ErrorDict ELSE TavilyDict

search_youtube(up) ==
    IF ~available.youtube THEN ErrorList
    ELSE IF ~settings.youtube_api_key THEN ErrorList
    ELSE ListOf(up)

search_semantic_scholar(up) == ListOf(up)

search_huggingface(up) == ListOf(up)

(* settings.github_token is read inside the try block; Settings declares no *)
(* such field, so the read raises and the handler returns the error record. *)
search_github(up) == ErrorList

search_papers_with_code(up) == ListOf(up)

search_anthropic(up) == ListOf(up)

(* The provider behind a source key. *)
Provider(key, up) ==
    CASE key = "arxiv"            -> search_arxiv(up)
      [] key = "wikipedia"        -> search_wikipedia(up)
      [] key = "tavily"           -> search_tavily(up)
      [] key = "youtube"          -> search_youtube(up)
      [] key = "semantic_scholar" -> search_semantic_scholar(up)
      [] key = "huggingface"      -> search_huggingface(up)
      [] key = "github"           -> search_github(up)
      [] key = "papers_with_code" -> search_papers_with_code(up)
      [] key = "anthropic"        -> search_anthropic(up)

IsErrorRecord(r) == r \in {ErrorList, ErrorDict}

-----------------------------------------------------------------------------
(* agent.py *)
(* _empty_sources without line 41: tavily starts as a list too. *)
_empty_sources_all_lists == [ key \in ALL_SOURCE_KEYS |-> EmptyList ]

_empty_sources ==
    [ key \in ALL_SOURCE_KEYS |-> IF key = "tavily" THEN None ELSE EmptyList ]

(* The client property reading the configured key at every access. *)
ClientAfterAccess_uncached == settings.groq_api_key

(* The _get_available_tools that does not look at the credentials. *)
_get_available_tools_unkeyed ==
    LET skip == (IF ~available.arxiv THEN {"search_arxiv"} ELSE {})
                \cup (IF ~available.wikipedia THEN {"search_wikipedia"} ELSE {})
                \cup (IF ~available.tavily THEN {"search_web"} ELSE {})
                \cup (IF ~available.youtube THEN {"search_youtube"} ELSE {})
    IN  SelectSeq(TOOL_SCHEMAS, LAMBDA name : name \notin skip /\ name \in TOOL_FUNCTIONS)

(* The client property: the value of _client after the access. *)
ClientAfterAccess ==
    IF ~initialized THEN settings.groq_api_key ELSE client

_get_available_tools ==
    LET skip == (IF ~available.arxiv THEN {"search_arxiv"} ELSE {})
                \cup (IF ~available.wikipedia THEN {"search_wikipedia"} ELSE {})
                \cup (IF ~(available.tavily /\ settings.tavily_api_key)
                      THEN {"search_web"} ELSE {})
                \cup (IF ~(available.youtube /\ settings.youtube_api_key)
                      THEN {"search_youtube"} ELSE {})
    IN  SelectSeq(TOOL_SCHEMAS, LAMBDA name : name \notin skip /\ name \in TOOL_FUNCTIONS)

(* _collect_source storing under the tool name instead of its source key. *)
_collect_source_by_name(sources, fn_name, result) ==
    DictSet(sources, fn_name, result)

(* _collect_source keeping the first result stored under a key. *)
_collect_source_first_wins(sources, fn_name, result) ==
    IF fn_name \in DOMAIN TOOL_TO_SOURCE_KEY
          /\ sources[TOOL_TO_SOURCE_KEY[fn_name]] \in {None, EmptyList}
    THEN DictSet(sources, TOOL_TO_SOURCE_KEY[fn_name], result)
    ELSE sources

_collect_source(sources, fn_name, result) ==
    IF fn_name \in DOMAIN TOOL_TO_SOURCE_KEY
    THEN DictSet(sources, TOOL_TO_SOURCE_KEY[fn_name], result)
    ELSE sources


(* json.loads of the arguments string of a tool-call request.  ok is FALSE  *)
(* when it raises JSONDecodeError; otherwise the value is a mapping with    *)
(* the keyword arguments in kwargs, or something that is not a mapping.     *)
ArgsGood      == "{\"query\": \"attention\", \"max_results\": 3}"
ArgsMalformed == "{\"query\": \"attention\""
ArgsArray     == "[\"attention\"]"
ArgsNoQuery   == "{\"max_results\": 3}"
ArgsExtra     == "{\"query\": \"attention\", \"language\": \"en\"}"

json_loads(raw) ==
    CASE raw = ArgsGood ->
           [ok |-> TRUE, mapping |-> TRUE,
            kwargs |-> [query |-> "attention", max_results |-> 3]]
      [] raw = ArgsMalformed ->
           [ok |-> FALSE, mapping |-> FALSE, kwargs |-> << >>]
      [] raw = ArgsArray ->
           [ok |-> TRUE, mapping |-> FALSE, kwargs |-> << >>]
      [] raw = ArgsNoQuery ->
           [ok |-> TRUE, mapping |-> TRUE, kwargs |-> [max_results |-> 3]]
      [] raw = ArgsExtra ->
           [ok |-> TRUE, mapping |-> TRUE,
            kwargs |-> [query |-> "attention", language |-> "en"]]

(* The parse of line 163 without the handler of lines 164-165. *)
ParseArgs_unhandled(raw, q) == json_loads(raw)

(* fn_args of one tool call: the parsed arguments, or {"query": query}      *)
(* when they do not parse.                                                  *)
ParseArgs(raw, q) ==
    IF json_loads(raw).ok THEN json_loads(raw)
    ELSE [ok |-> TRUE, mapping |-> TRUE, kwargs |-> [query |-> q]]

(* partial(fn, **fn_args)() returns: fn_args is a mapping, it gives the     *)
(* required query and nothing but query and max_results, the parameters of  *)
(* every provider.  Otherwise the call raises TypeError.                    *)
Binds(fn_args) ==
    /\ fn_args.mapping
    /\ "query" \in DOMAIN fn_args.kwargs
    /\ DOMAIN fn_args.kwargs \subseteq {"query", "max_results"}

-----------------------------------------------------------------------------
(* The values the environment draws from. *)
Queries == {"transformer architecture"}

Booleans == {TRUE, FALSE}

(* Tool names an assistant turn may ask for: two known tools and a name no  *)
(* tool has.                                                                *)
LLMToolNames == {"search_arxiv", "search_web", "search_images"}

RawArguments == {ArgsGood, ArgsMalformed, ArgsArray, ArgsNoQuery, ArgsExtra}

SourceNames == ALL_SOURCE_KEYS \cup {"bing"}

(* The providers whose outbound request is answered with no entry. *)
QuietSets == {{}, {"wikipedia"}, ALL_SOURCE_KEYS}

(* What one fan-out meets: the providers whose outbound request fails       *)
(* (down) and those answered with no entry (quiet).                         *)
FanOuts ==
    { [down |-> {}, quiet |-> quiet] : quiet \in QuietSets }
    \cup { [down |-> {"arxiv"}, quiet |-> {"wikipedia"}],
           [down |-> {"tavily"}, quiet |-> {}],
           [down |-> {"arxiv", "tavily"}, quiet |-> ALL_SOURCE_KEYS],
           [down |-> ALL_SOURCE_KEYS, quiet |-> {}] }

(* What the outbound request of a task of the fan-out meets. *)
UpstreamOf(name, down, quiet) ==
    IF name \in down THEN "fails"
    ELSE IF name \in quiet THEN "no hits"
    ELSE "hits"

Installed == {
    [arxiv |-> TRUE,  wikipedia |-> TRUE, tavily |-> TRUE,  youtube |-> TRUE],
    [arxiv |-> TRUE,  wikipedia |-> TRUE, tavily |-> FALSE, youtube |-> TRUE] }

Keys(groq, tavily, youtube) ==
    [groq_api_key |-> groq, tavily_api_key |-> tavily, youtube_api_key |-> youtube]

(* The deployments a process starts in: the keys of the environment and the *)
(* packages installed.  Every key set; the LLM key alone; every key with    *)
(* the tavily package missing; the search keys without the LLM key; no key; *)
(* the tavily key alone with its package missing.                           *)
Deployments ==
    LET all        == CHOOSE a \in Installed : a.tavily
        no_package == CHOOSE a \in Installed : ~a.tavily
    IN  { [settings |-> Keys(TRUE, TRUE, TRUE),    available |-> all],
          [settings |-> Keys(TRUE, FALSE, FALSE),  available |-> all],
          [settings |-> Keys(TRUE, TRUE, TRUE),    available |-> no_package],
          [settings |-> Keys(FALSE, TRUE, TRUE),   available |-> all],
          [settings |-> Keys(FALSE, FALSE, FALSE), available |-> all],
          [settings |-> Keys(FALSE, TRUE, FALSE),  available |-> no_package] }

LLMText == "Transformers use self-attention..."

-----------------------------------------------------------------------------
(* The conversation. *)
SystemTurn == [role |-> "system", content |-> "SYSTEM_PROMPT"]

(* The user turn of line 111 without the query. *)
UserTurn_no_query(q) ==
    [role |-> "user",
     content |-> "Research the following topic in the context of AI and machine learning: "]

UserTurn(q) ==
    [role |-> "user",
     content |-> "Research the following topic in the context of AI and machine learning: " \o q]

(* json.dumps(result, default=str) of line 179: the JSON text of a value,   *)
(* null for None and the text of the list or dict otherwise.                *)
json_dumps(v) == IF v = None THEN "null" ELSE "'" \o v \o "'"

(* An assistant turn is kept by its role, its content and the correlation   *)
(* ids of its requests, in order; the names and arguments of the requests   *)
(* are in tool_calls and dispatched.  content is msg.content, None or a     *)
(* text, kept by line 144 as msg.content or "".                             *)
AssistantTurn(calls, content) ==
    [role |-> "assistant",
     content |-> IF content = None THEN "" ELSE content,
     tool_calls |-> [i \in 1..Len(calls) |-> calls[i].id]]

(* A tool turn that does not carry the id of its request. *)
ToolTurn_uncorrelated(id, result) ==
    [role |-> "tool", tool_call_id |-> 0, content |-> json_dumps(result)]

(* Lines 176-180: the tool turn carries the id of its request and the       *)
(* serialized result.                                                       *)
ToolTurn(id, result) ==
    [role |-> "tool", tool_call_id |-> id, content |-> json_dumps(result)]

FinalUserTurn ==
    [role |-> "user",
     content |-> "Please provide your final summary now based on all the information gathered."]

ToolTurnCount(msgs) == Cardinality({i \in 1..Len(msgs) : msgs[i].role = "tool"})

(* The tool turns that carry an error record or an empty list. *)
FaultTurnCount(msgs) ==
    Cardinality({i \in 1..Len(msgs) :
                    /\ msgs[i].role = "tool"
                    /\ msgs[i].content \notin {json_dumps(Records), json_dumps(TavilyDict)}})

-----------------------------------------------------------------------------
(* What a request returns. *)
NoOutcome == [returned |-> FALSE]

(* The outcome of lines 134-139 without the text of the message. *)
TextOutcome_no_text(q, text, sources) ==
    [query |-> q, response |-> None, sources |-> sources, success |-> TRUE]

TextOutcome(q, text, sources) ==
    [query |-> q, response |-> text, sources |-> sources, success |-> TRUE]

FinalOutcome(q, text, sources) ==
    [query |-> q, response |-> text, sources |-> sources, success |-> TRUE]

(* The outcome of lines 202-206 with the sources started over, as the      *)
(* fallback would return them.                                              *)
FinalFailedOutcome_emptied(q, sources) ==
    [query |-> q, sources |-> _empty_sources, success |-> TRUE]

FinalFailedOutcome(q, sources) ==
    [query |-> q, sources |-> sources, success |-> TRUE]

(* A fallback outcome that reports failure when no source has a result. *)
FallbackOutcome_judged(q, sources) ==
    [query |-> q, sources |-> sources,
     success |-> \E k \in DOMAIN sources : sources[k] \in {Records, TavilyDict}]

(* A fallback outcome that carries a response. *)
FallbackOutcome_synthesized(q, sources) ==
    [query |-> q, response |-> LLMText, sources |-> sources, success |-> TRUE]

FallbackOutcome(q, sources) ==
    [query |-> q, sources |-> sources, success |-> TRUE]

UnknownSourceOutcome(s) == [error |-> "Unknown source: " \o s]

(* The outcome of lines 279-284 reporting failure for an error record. *)
SourceOutcome_judged(q, s, results) ==
    [query |-> q, source |-> s, results |-> results,
     success |-> ~IsErrorRecord(results)]

SourceOutcome(q, s, results) ==
    [query |-> q, source |-> s, results |-> results, success |-> TRUE]

-----------------------------------------------------------------------------
(* _fallback_search *)
Raised == "Exception"

FallbackTaskNames ==
    << "arxiv", "wikipedia", "semantic_scholar", "huggingface", "github",
       "papers_with_code" >>
    \o << "anthropic" >>
    \o (IF settings.tavily_api_key THEN << "tavily" >> ELSE << >>)
    \o (IF settings.youtube_api_key THEN << "youtube" >> ELSE << >>)

(* The fallback passing the bare query to every provider. *)
FallbackQuery_bare(name, q) == q

(* The query a fallback task passes to its provider. *)
FallbackQuery(name, q) ==
    CASE name = "anthropic" -> q
      [] name = "youtube"   -> add_ai_ml_context(q, "youtube")
      [] OTHER              -> add_ai_ml_context(q, "general")

(* The results of asyncio.gather: a provider called with one positional     *)
(* string returns, so no result is an exception.                            *)
GatherResults(task_names, down, quiet) ==
    [i \in 1..Len(task_names) |->
        Provider(task_names[i], UpstreamOf(task_names[i], down, quiet))]

(* A merge that keeps what the loop gathered under a key when the fan-out   *)
(* returned an error record for it.                                         *)
MergeResults_keeping_earlier(sources, task_names, results) ==
    [k \in DOMAIN sources |->
        IF \E i \in 1..Len(task_names) : task_names[i] = k
        THEN LET r == results[CHOOSE i \in 1..Len(task_names) : task_names[i] = k]
             IN  IF IsErrorRecord(r) /\ k \in DOMAIN all_sources
                       /\ all_sources[k] \in {Records, TavilyDict}
                 THEN all_sources[k]
                 ELSE r
        ELSE sources[k]]

(* for name, result in zip(task_names, results) *)
RECURSIVE MergeResults(_, _, _)
MergeResults(sources, task_names, results) ==
    IF task_names = << >> \/ results = << >> THEN sources
    ELSE MergeResults(
             IF Head(results) # Raised
             THEN DictSet(sources, Head(task_names), Head(results))
             ELSE sources,
             Tail(task_names), Tail(results))

_fallback_search(q, down, quiet) ==
    FallbackOutcome(q,
        MergeResults(_empty_sources, FallbackTaskNames,
                     GatherResults(FallbackTaskNames, down, quiet)))

(* The request returns o (o = NoOutcome: it ends in an unhandled exception) *)
(* and its frame, with its local variables, is gone.                        *)
Leave(position, o) ==
    /\ pc' = position
    /\ outcome' = o
    /\ iteration' = 0
    /\ func_map' = {}
    /\ messages' = << >>
    /\ all_sources' = << >>
    /\ tool_calls' = << >>
    /\ idx' = 0

Return(o) == Leave("done", o)

Crash == Leave("crashed", NoOutcome)

(* return await self._fallback_search(query) up to its await: lines        *)
(* 210-241 submit one call per task to the executor and the request waits   *)
(* in asyncio.gather.                                                       *)
RunFallback(q, calls_before, dispatched_before) ==
    /\ pc' = "gather"
    /\ provider_calls' = calls_before + Len(FallbackTaskNames)
    /\ dispatched' =
           [name \in DOMAIN dispatched_before \cup
                     {FallbackTaskNames[i] : i \in 1..Len(FallbackTaskNames)} |->
                IF \E i \in 1..Len(FallbackTaskNames) : FallbackTaskNames[i] = name
                THEN [query |-> FallbackQuery(name, q)]
                ELSE dispatched_before[name]]

-----------------------------------------------------------------------------
(* The request followed has returned or raised, so that the next request   *)
(* to follow can be picked.  The code has no such guard: requests that      *)
(* arrive meanwhile are OtherSearchArrives and the frames of the requests   *)
(* in flight together.                                                      *)
Quiescent == pc \in {"idle", "done", "crashed"}

(* The parts of the state a specification does not use stay as they are     *)
(* here.                                                                    *)
PoolUnused ==
    /\ callers = << >> /\ submitted = << >> /\ work_queue = << >> /\ threads = << >>
    /\ idle_semaphore = << >>
    /\ running = {} /\ stalled = {} /\ reporting = << >> /\ finished = {}

ConcUnused == heap = << >> /\ frames = << >>

AnthropicUnused ==
    page = << >> /\ an_query = << >> /\ an_max_results = 0 /\ an_results = << >>

AbstractUnused == paper_source = "" /\ summary = << >> /\ abstract = << >>

BookmarkUnused == db = << >> /\ tx = << >> /\ sessions = << >>

IngestUnused ==
    /\ batch = << >> /\ unique_articles = << >> /\ stored = {}
    /\ saves = << >> /\ ingest_tx = << >> /\ ingest_pc = ""

Init ==
    /\ \E d \in Deployments : settings = d.settings /\ available = d.available
    /\ initialized = FALSE
    /\ client = FALSE
    /\ pc = "idle"
    /\ op = "none"
    /\ query = ""
    /\ source = ""
    /\ iteration = 0
    /\ func_map = {}
    /\ messages = << >>
    /\ all_sources = << >>
    /\ tool_calls = << >>
    /\ idx = 0
    /\ outcome = NoOutcome
    /\ llm_tool_calls = 0
    /\ llm_plain_calls = 0
    /\ tool_replies = 0
    /\ provider_calls = 0
    /\ dispatched = << >>
    /\ PoolUnused /\ ConcUnused /\ AnthropicUnused /\ AbstractUnused
    /\ BookmarkUnused /\ IngestUnused

(* Lines 100-105 without the test of self.client. *)
TakesFallback_unchecked == _get_available_tools = << >>

(* Lines 100-105: search() goes to _fallback_search without calling the LLM *)
TakesFallback == ~ClientAfterAccess \/ _get_available_tools = << >>

(* search(q) up to its first await: lines 100-118, or lines 100-105 and    *)
(* the fallback up to its gather.                                           *)
SearchWith(q) ==
    /\ Quiescent
    /\ UNCHANGED sub_vars
    /\ op' = "search"
    /\ query' = q
    /\ source' = ""
    /\ initialized' = TRUE
    /\ client' = ClientAfterAccess
    /\ llm_tool_calls' = 0
    /\ llm_plain_calls' = 0
    /\ tool_replies' = 0
    /\ iteration' = 0
    /\ tool_calls' = << >>
    /\ idx' = 0
    /\ outcome' = NoOutcome
    /\ IF TakesFallback
       THEN /\ RunFallback(q, 0, << >>)
            /\ func_map' = {}
            /\ all_sources' = << >>
            /\ messages' = << >>
       ELSE /\ pc' = "await_llm"
            /\ func_map' = {_get_available_tools[i] : i \in 1..Len(_get_available_tools)}
            /\ all_sources' = _empty_sources
            /\ messages' = << SystemTurn, UserTurn(q) >>
            /\ provider_calls' = 0
            /\ dispatched' = << >>
    /\ UNCHANGED << settings, available >>

Search == \E q \in Queries : SearchWith(q)

(* An LLM call made with the tool schemas raises: lines 126-128 and the     *)
(* fallback up to its gather.  The frame of search() stays until the        *)
(* fallback returns.                                                        *)
LLMFails ==
    /\ pc = "await_llm"
    /\ UNCHANGED sub_vars
    /\ llm_tool_calls' = llm_tool_calls + 1
    /\ RunFallback(query, provider_calls, dispatched)
    /\ UNCHANGED << settings, available, initialized, client, op, query, source,
                    iteration, func_map, messages, all_sources, tool_calls, idx,
                    outcome, llm_plain_calls, tool_replies >>

(* asyncio.gather returns, the outbound requests of the providers in `down` *)
(* having failed: lines 241-252, and search() returns what the fallback     *)
(* returned.                                                                *)
FallbackReturnsWith(down, quiet) ==
    /\ pc = "gather"
    /\ UNCHANGED sub_vars
    /\ Return(_fallback_search(query, down, quiet))
    /\ UNCHANGED << settings, available, initialized, client, op, query, source,
                    llm_tool_calls, llm_plain_calls, tool_replies, provider_calls,
                    dispatched >>

FallbackReturns ==
    \E met \in FanOuts : FallbackReturnsWith(met.down, met.quiet)

(* The call returns a response with no choice: response.choices[0] of line  *)
(* 130 raises IndexError, which nothing catches.                            *)
LLMNoChoices ==
    /\ pc = "await_llm"
    /\ UNCHANGED sub_vars
    /\ llm_tool_calls' = llm_tool_calls + 1
    /\ Crash
    /\ UNCHANGED << settings, available, initialized, client, op, query, source,
                    llm_plain_calls, tool_replies, provider_calls, dispatched >>

(* The message has no tool calls: lines 133-139. *)
LLMAnswers ==
    /\ pc = "await_llm"
    /\ UNCHANGED sub_vars
    /\ llm_tool_calls' = llm_tool_calls + 1
    /\ Return(TextOutcome(query, LLMText, all_sources))
    /\ UNCHANGED << settings, available, initialized, client, op, query, source,
                    llm_plain_calls, tool_replies, provider_calls, dispatched >>

(* The id the LLM gives the i-th request of its k-th turn. *)
CallId(k, i) == k * (MaxCallsPerTurn + 1) + i

(* What msg.content holds in a reply that asks for tools: nothing or a text. *)
LLMContents == {None, "Let me search."}

(* The message asks for tool calls: lines 142-156. *)
LLMRequestsTools ==
    /\ pc = "await_llm"
    /\ UNCHANGED sub_vars
    /\ \E n \in 1..MaxCallsPerTurn :
        /\ ToolTurnCount(messages) + n <= MaxToolCalls
        /\ \E names \in [1..n -> LLMToolNames], content \in LLMContents :
            LET calls == [i \in 1..n |->
                            [id |-> CallId(iteration + 1, i), name |-> names[i]]]
            IN  /\ provider_calls + Cardinality({i \in 1..n : names[i] \in func_map})
                      <= MaxProviderCalls
                /\ content # None => iteration < MaxTextPasses
                /\ tool_calls' = calls
                /\ messages' = Append(messages, AssistantTurn(calls, content))
    /\ llm_tool_calls' = llm_tool_calls + 1
    /\ tool_replies' = tool_replies + 1
    /\ idx' = 1
    /\ pc' = "tool_exec"
    /\ UNCHANGED << settings, available, initialized, client, op, query, source,
                    iteration, func_map, all_sources, outcome, llm_plain_calls,
                    provider_calls, dispatched >>

(* The end of one pass of the loop over msg.tool_calls, msgs being the      *)
(* conversation with the tool turn appended: the next request of the turn,  *)
(* the next LLM call, or lines 183-186 when the iterations are exhausted.   *)
NextToolCall(msgs) ==
    IF idx < Len(tool_calls)
    THEN /\ idx' = idx + 1
         /\ messages' = msgs
         /\ pc' = "tool_exec"
         /\ UNCHANGED << iteration, tool_calls >>
    ELSE /\ idx' = 0
         /\ tool_calls' = << >>
         /\ iteration' = iteration + 1
         /\ IF iteration + 1 < MAX_ITERATIONS
            THEN /\ messages' = msgs
                 /\ pc' = "await_llm"
            ELSE /\ messages' = Append(msgs, FinalUserTurn)
                 /\ pc' = "final_synthesis"

(* Lines 173-180 with an empty list in place of the error record of line    *)
(* 174: the tool turn carries the id of the request and the text of [].     *)
UnknownToolStep_empty_result(tool_call) ==
    /\ NextToolCall(Append(messages, ToolTurn(tool_call.id, EmptyList)))
    /\ UNCHANGED << func_map, all_sources, outcome, provider_calls, dispatched >>

(* Lines 173-180: the name is not in func_map, the result is the error      *)
(* record and the tool turn carrying it is appended.                        *)
UnknownToolStep(tool_call) ==
    /\ NextToolCall(Append(messages, ToolTurn(tool_call.id, ErrorDict)))
    /\ UNCHANGED << func_map, all_sources, outcome, provider_calls, dispatched >>

(* One pass of the loop over msg.tool_calls up to its await, lines 159-171, *)
(* the request carrying the arguments string raw.  For a name of func_map   *)
(* partial(func_map[fn_name], **fn_args) is built, which raises TypeError   *)
(* when fn_args is not a mapping, and is submitted to the executor whatever *)
(* the keywords are; the request waits for the result.  For another name    *)
(* there is no await and the pass is lines 159-180.                         *)
ToolExecWith(raw) ==
    /\ pc = "tool_exec"
    /\ UNCHANGED sub_vars
    /\ LET tool_call == tool_calls[idx]
           fn_name   == tool_call.name
           fn_args   == ParseArgs(raw, query)
           key       == TOOL_TO_SOURCE_KEY[fn_name]
       IN  IF fn_name \in func_map
           THEN IF fn_args.mapping
                THEN /\ provider_calls' = provider_calls + 1
                     /\ dispatched' = DictSet(dispatched, key, fn_args.kwargs)
                     /\ pc' = "await_tool"
                     /\ UNCHANGED << iteration, func_map, messages, all_sources,
                                     tool_calls, idx, outcome >>
                ELSE /\ Crash
                     /\ UNCHANGED << provider_calls, dispatched >>
           ELSE UnknownToolStep(tool_call)
    /\ UNCHANGED << settings, available, initialized, client, op, query, source,
                    llm_tool_calls, llm_plain_calls, tool_replies >>

ToolExec == \E raw \in RawArguments : ToolExecWith(raw)

(* The keyword arguments the executor was given for the request awaited. *)
SubmittedArgs ==
    [ok |-> TRUE, mapping |-> TRUE,
     kwargs |-> dispatched[TOOL_TO_SOURCE_KEY[tool_calls[idx].name]]]

(* The await of line 168 ends, lines 168-180: the provider returned, its    *)
(* outbound request having succeeded or not (up), and the result is stored  *)
(* and answered; or the call raised TypeError in the worker thread on       *)
(* keywords the provider does not take, which the await raises again.       *)
ToolReturnsWith(up) ==
    /\ pc = "await_tool"
    /\ UNCHANGED sub_vars
    /\ LET tool_call == tool_calls[idx]
           fn_name   == tool_call.name
           key       == TOOL_TO_SOURCE_KEY[fn_name]
           result    == Provider(key, up)
       IN  IF Binds(SubmittedArgs)
           THEN /\ all_sources' = _collect_source(all_sources, fn_name, result)
                /\ NextToolCall(Append(messages, ToolTurn(tool_call.id, result)))
                /\ UNCHANGED << func_map, outcome >>
           ELSE Crash
    /\ UNCHANGED << settings, available, initialized, client, op, query, source,
                    llm_tool_calls, llm_plain_calls, tool_replies, provider_calls,
                    dispatched >>

ToolReturns ==
    \E up \in Upstream :
        /\ up # "hits" => FaultTurnCount(messages) < MaxFaults
        /\ ToolReturnsWith(up)

(* The LLM call without tool schemas: lines 187-206.  A response with no    *)
(* choice raises inside the try block and is handled like a failed call.    *)
FinalSynthesis ==
    /\ pc = "final_synthesis"
    /\ UNCHANGED sub_vars
    /\ llm_plain_calls' = llm_plain_calls + 1
    /\ \E reply \in {"text", "raises", "no choices"} :
           IF reply = "text"
           THEN Return(FinalOutcome(query, LLMText, all_sources))
           ELSE Return(FinalFailedOutcome(query, all_sources))
    /\ UNCHANGED << settings, available, initialized, client, op, query, source,
                    llm_tool_calls, tool_replies, provider_calls, dispatched >>

(* The query search_source passes to the provider of a source. *)
SourceQuery(s, q) ==
    CASE s = "youtube"   -> add_ai_ml_context(q, "youtube")
      [] s = "anthropic" -> q
      [] OTHER           -> add_ai_ml_context(q, "general")

(* The keys of source_dispatch *)
SourceDispatchKeys ==
    {"arxiv", "wikipedia", "tavily", "youtube", "semantic_scholar",
     "huggingface", "github", "papers_with_code", "anthropic"}

(* source_dispatch.get(source, source_dispatch["arxiv"]) *)
SourceDispatch_defaulted(s, q) ==
    IF s \in SourceDispatchKeys
    THEN [found |-> TRUE, fn |-> s, q |-> SourceQuery(s, q)]
    ELSE [found |-> TRUE, fn |-> "arxiv", q |-> SourceQuery("arxiv", q)]

(* source_dispatch.get(source): the provider and the query, or nothing *)
SourceDispatch(s, q) ==
    IF s \in SourceDispatchKeys
    THEN [found |-> TRUE, fn |-> s, q |-> SourceQuery(s, q)]
    ELSE [found |-> FALSE]

(* search_source(q, s) up to its await: lines 254-277, or lines 254-274    *)
(* for a name that is no key of source_dispatch.                            *)
SearchSourceWith(q, s) ==
    /\ Quiescent
    /\ UNCHANGED sub_vars
    /\ op' = "search_source"
    /\ query' = q
    /\ source' = s
    /\ LET entry == SourceDispatch(s, q)
       IN  IF ~entry.found
           THEN /\ Return(UnknownSourceOutcome(s))
                /\ provider_calls' = 0
                /\ dispatched' = << >>
           ELSE /\ Leave("await_source", NoOutcome)
                /\ provider_calls' = 1
                /\ dispatched' = DictSet(<< >>, entry.fn, [query |-> entry.q])
    /\ llm_tool_calls' = 0
    /\ llm_plain_calls' = 0
    /\ tool_replies' = 0
    /\ UNCHANGED << settings, available, initialized, client >>

SearchSource == \E q \in Queries, s \in SourceNames : SearchSourceWith(q, s)

(* The await of line 277 ends, lines 277-284, the outbound request of the   *)
(* provider having succeeded or not (up).                                   *)
SourceReturnsWith(up) ==
    /\ pc = "await_source"
    /\ UNCHANGED sub_vars
    /\ Return(SourceOutcome(query, source,
                            Provider(SourceDispatch(source, query).fn, up)))
    /\ UNCHANGED << settings, available, initialized, client, op, query, source,
                    llm_tool_calls, llm_plain_calls, tool_replies, provider_calls,
                    dispatched >>

SourceReturns == \E up \in Upstream : SourceReturnsWith(up)

(* A search request other than the one followed reads self.client at line   *)
(* 100 while the one followed has not arrived or is suspended in an await:  *)
(* the route has no guard against requests in flight together.  Its frame   *)
(* is its own; what it leaves in the service object is the client property. *)
OtherSearchArrives ==
    /\ initialized' = TRUE
    /\ client' = ClientAfterAccess
    /\ UNCHANGED << settings, available, pc, op, query, source, iteration,
                    func_map, messages, all_sources, tool_calls, idx, outcome,
                    llm_tool_calls, llm_plain_calls, tool_replies, provider_calls,
                    dispatched >>
    /\ UNCHANGED sub_vars

Next ==
    \/ Search
    \/ SearchSource
    \/ SourceReturns
    \/ LLMFails
    \/ FallbackReturns
    \/ LLMNoChoices
    \/ LLMAnswers
    \/ LLMRequestsTools
    \/ ToolExec
    \/ ToolReturns
    \/ FinalSynthesis
    \/ OtherSearchArrives

Spec == Init /\ [][Next]_vars

-----------------------------------------------------------------------------
(* Properties *)

(* The nine response keys. *)
ResponseKeys ==
    {"arxiv", "wikipedia", "tavily", "youtube", "semantic_scholar",
     "huggingface", "github", "papers_with_code", "anthropic"}

(* The request is inside the LLM loop of search(). *)
InLLMLoop == pc \in {"await_llm", "tool_exec", "await_tool", "final_synthesis"}

(* The initial value of a source key. *)
InitialValue(k) == IF k = "tavily" THEN None ELSE EmptyList

(* C1: the sources mapping of search() has exactly the nine response keys, *)
(* while the loop fills it and in every outcome search() returns, whichever *)
(* path returned it.                                                        *)
C1_NineKeys ==
    /\ InLLMLoop => DOMAIN all_sources = ResponseKeys
    /\ (op = "search" /\ pc = "done") => DOMAIN outcome.sources = ResponseKeys

(* A synthesis forced after five iterations with tool results collected. *)
C1_Witness ==
    /\ op = "search" /\ pc = "done"
    /\ "response" \in DOMAIN outcome
    /\ llm_plain_calls = 1
    /\ provider_calls > 1
    /\ outcome.sources["arxiv"] = Records

(* C2: a request whose every LLM reply asked for tool calls makes exactly   *)
(* five LLM calls with the tool schemas and then exactly one final call;    *)
(* no request makes more than five calls with tool schemas or more than six *)
(* LLM calls.                                                               *)
C2_FiveThenFinal ==
    /\ llm_tool_calls <= MAX_ITERATIONS
    /\ llm_tool_calls + llm_plain_calls <= MAX_ITERATIONS + 1
    /\ (op = "search" /\ pc \in {"done", "crashed"}
            /\ tool_replies > 0 /\ tool_replies = llm_tool_calls)
           => (llm_tool_calls = MAX_ITERATIONS /\ llm_plain_calls = 1)

(* C3: with no LLM credential configured, every search request is answered *)
(* by the fallback: it is never in the LLM loop, it makes no LLM call, it   *)
(* waits for the fan-out and returns its outcome, which has no response.    *)
C3_NoCredentialFallback ==
    (op = "search" /\ ~settings.groq_api_key)
        => /\ pc \in {"gather", "done"}
           /\ ~client
           /\ llm_tool_calls = 0
           /\ llm_plain_calls = 0
           /\ provider_calls = Len(FallbackTaskNames)
           /\ pc = "done" => DOMAIN outcome = {"query", "sources", "success"}

(* A fallback answer of a service without credential whose registry has     *)
(* every tool available.                                                    *)
C3_Witness ==
    /\ op = "search" /\ pc = "done"
    /\ ~settings.groq_api_key
    /\ _get_available_tools # << >>
    /\ Len(_get_available_tools) = Len(TOOL_SCHEMAS)
    /\ provider_calls = 9

(* C4: when the first reply of the LLM has no tool call, the request ends   *)
(* after that one LLM call, its response is the text of the reply, no       *)
(* provider was called and no source key holds a result.                    *)
C4_TextAtFirstCall ==
    (op = "search" /\ pc = "done" /\ llm_tool_calls = 1
            /\ "response" \in DOMAIN outcome)
        => /\ llm_plain_calls = 0
           /\ outcome.response = LLMText
           /\ provider_calls = 0
           /\ dispatched = << >>
           /\ \A k \in ResponseKeys : outcome.sources[k] = InitialValue(k)

C4_Witness ==
    /\ op = "search" /\ pc = "done"
    /\ llm_tool_calls = 1
    /\ "response" \in DOMAIN outcome
    /\ outcome.response = LLMText

(* C5: a provider call that fails, because its outbound request fails or    *)
(* because the call itself raises on the arguments it is given, leaves an   *)
(* error record under the provider's key and the batch goes on.  In the     *)
(* tool loop the request is not ended, the record is stored and the next    *)
(* request of the turn is executed next; in the fallback every task's       *)
(* result is stored, the error record of a failed provider and the normal   *)
(* result of the others.                                                    *)
C5_FailureIsolated ==
    /\ [][\A raw \in RawArguments :
            (ToolExecWith(raw) /\ tool_calls[idx].name \in func_map)
            => pc' = "await_tool"
         ]_vars
    /\ [][\A up \in Upstream :
            (ToolReturnsWith(up) /\ (up = "fails" \/ ~Binds(SubmittedArgs)))
            => /\ pc' \in {"tool_exec", "await_llm", "final_synthesis"}
               /\ IsErrorRecord(all_sources'[TOOL_TO_SOURCE_KEY[tool_calls[idx].name]])
               /\ idx < Len(tool_calls)
                    => (pc' = "tool_exec" /\ idx' = idx + 1 /\ tool_calls' = tool_calls)
         ]_vars
    /\ [][pc = "gather" =>
            \A met \in FanOuts :
              FallbackReturnsWith(met.down, met.quiet)
              => /\ pc' = "done"
                 /\ \A i \in 1..Len(FallbackTaskNames) :
                      LET name == FallbackTaskNames[i]
                      IN  /\ name \in met.down => IsErrorRecord(outcome'.sources[name])
                          /\ name \notin met.down =>
                               outcome'.sources[name]
                                   = Provider(name,
                                              UpstreamOf(name, met.down, met.quiet))
         ]_vars

(* C6: a request whose arguments do not parse does not end the iteration:   *)
(* a tool of func_map is called with {query: the original query}, its       *)
(* result is stored, a tool turn with the id of the request is appended,    *)
(* and the next request of the turn is executed next; for a name outside    *)
(* func_map the tool turn is appended without a call.                       *)
C6_MalformedArguments ==
    /\ [][ToolExecWith(ArgsMalformed)
            => IF tool_calls[idx].name \in func_map
               THEN /\ pc' = "await_tool"
                    /\ provider_calls' = provider_calls + 1
                    /\ dispatched'[TOOL_TO_SOURCE_KEY[tool_calls[idx].name]]
                          = [query |-> query]
                    /\ messages' = messages
                    /\ idx' = idx /\ tool_calls' = tool_calls
               ELSE /\ pc' \in {"tool_exec", "await_llm", "final_synthesis"}
                    /\ Len(messages') > Len(messages)
                    /\ messages'[Len(messages) + 1].role = "tool"
                    /\ messages'[Len(messages) + 1].tool_call_id = tool_calls[idx].id
         ]_vars
    /\ [][\A up \in Upstream :
            (ToolReturnsWith(up) /\ SubmittedArgs.kwargs = [query |-> query])
            => LET key == TOOL_TO_SOURCE_KEY[tool_calls[idx].name]
               IN  /\ pc' \in {"tool_exec", "await_llm", "final_synthesis"}
                   /\ Len(messages') > Len(messages)
                   /\ messages'[Len(messages) + 1].role = "tool"
                   /\ messages'[Len(messages) + 1].tool_call_id = tool_calls[idx].id
                   /\ all_sources'[key] = Provider(key, up)
                   /\ idx < Len(tool_calls)
                        => (pc' = "tool_exec" /\ idx' = idx + 1
                            /\ tool_calls' = tool_calls)
         ]_vars

(* The first request of a turn of two was executed with the default         *)
(* arguments and the second is up next.                                     *)
C6_Witness ==
    /\ op = "search" /\ pc = "tool_exec"
    /\ idx = 2
    /\ "arxiv" \in DOMAIN dispatched
    /\ dispatched["arxiv"] = [query |-> query]
    /\ all_sources["arxiv"] = Records

(* C7: no request ends in an unhandled exception. *)
C7_NoUnhandledFault == pc # "crashed"

(* C8: every outcome search() returns has success = true. *)
C8_SuccessTrue ==
    (op = "search" /\ pc = "done")
        => ("success" \in DOMAIN outcome /\ outcome.success = TRUE)

(* A fallback outcome in which every provider called left an error record. *)
C8_Witness ==
    /\ op = "search" /\ pc = "done"
    /\ outcome.success = TRUE
    /\ provider_calls >= 7
    /\ \A k \in DOMAIN dispatched : IsErrorRecord(outcome.sources[k])

(* C9: search_source with a name that is none of the nine returns an error  *)
(* result, calls no provider and no LLM.                                    *)
C9_UnknownSource ==
    (op = "search_source" /\ source \notin ResponseKeys)
        => /\ pc = "done"
           /\ DOMAIN outcome = {"error"}
           /\ provider_calls = 0
           /\ dispatched = << >>
           /\ llm_tool_calls = 0
           /\ llm_plain_calls = 0

C9_Witness ==
    /\ op = "search_source" /\ pc = "done"
    /\ source = "bing"
    /\ "error" \in DOMAIN outcome

(* C10 as written: every key whose tool was not called in the request maps  *)
(* to an empty sequence, from the initialization to the returned outcome.   *)
C10_UncalledKeysEmptyLists ==
    /\ InLLMLoop =>
         \A k \in ResponseKeys \ DOMAIN dispatched : all_sources[k] = EmptyList
    /\ (op = "search" /\ pc = "done") =>
         \A k \in ResponseKeys \ DOMAIN dispatched : outcome.sources[k] = EmptyList

(* C10 amended: every key whose tool was not called in the request holds    *)
(* its initial value, the empty sequence, or null for tavily.               *)
C10_UncalledKeysInitial ==
    /\ InLLMLoop =>
         \A k \in ResponseKeys \ DOMAIN dispatched : all_sources[k] = InitialValue(k)
    /\ (op = "search" /\ pc = "done") =>
         \A k \in ResponseKeys \ DOMAIN dispatched : outcome.sources[k] = InitialValue(k)

(* One paper search, then a text answer: the paper key holds records and    *)
(* the eight other keys hold their initial values.                          *)
C10_Witness ==
    /\ op = "search" /\ pc = "done"
    /\ llm_tool_calls = 2
    /\ provider_calls = 1
    /\ outcome.response = LLMText
    /\ outcome.sources["arxiv"] = Records
    /\ \A k \in ResponseKeys \ {"arxiv"} : outcome.sources[k] = InitialValue(k)

(* C11: search_source with one of the nine source names calls one provider, *)
(* the provider of that name, calls no LLM, and returns the query, the      *)
(* name, the provider's result as it is and success = true, also when the   *)
(* result is an error record.                                               *)
C11_KnownSource ==
    /\ [][\A q \in Queries, s \in ResponseKeys :
            SearchSourceWith(q, s)
            => /\ pc' = "await_source"
               /\ provider_calls' = 1
               /\ DOMAIN dispatched' = {s}
               /\ llm_tool_calls' = 0
               /\ llm_plain_calls' = 0
         ]_vars
    /\ [][\A up \in Upstream :
            SourceReturnsWith(up)
            => /\ pc' = "done"
               /\ provider_calls' = 1
               /\ DOMAIN dispatched' = {source}
               /\ llm_tool_calls' = 0
               /\ llm_plain_calls' = 0
               /\ outcome' = [query |-> query, source |-> source,
                              results |-> Provider(source, up), success |-> TRUE]
         ]_vars

(* search_source("tavily") answered with the error record of the provider. *)
C11_Witness ==
    /\ op = "search_source" /\ pc = "done"
    /\ source = "tavily"
    /\ provider_calls = 1
    /\ outcome.results = ErrorDict
    /\ outcome.success = TRUE

(* C12: the first LLM call with tool schemas that raises ends the request   *)
(* with the fallback, in whichever of the five iterations it happens: the   *)
(* failed call is the last LLM call of the request, the fan-out runs, and   *)
(* the outcome returned has no response.                                    *)
C12_FailureFallsBack ==
    /\ [][LLMFails
            => /\ pc' = "gather"
               /\ llm_tool_calls' = llm_tool_calls + 1
               /\ llm_plain_calls' = 0
               /\ provider_calls' = provider_calls + Len(FallbackTaskNames)
         ]_vars
    /\ [][pc = "gather"
            => /\ pc' \in {"gather", "done"}
               /\ llm_tool_calls' = llm_tool_calls
               /\ llm_plain_calls' = llm_plain_calls
               /\ provider_calls' = provider_calls
               /\ pc' = "done" => DOMAIN outcome' = {"query", "sources", "success"}
         ]_vars

(* The LLM call of the third iteration failed, after two turns of tool      *)
(* calls, and the fallback answered.                                        *)
C12_Witness ==
    /\ op = "search" /\ pc = "done"
    /\ llm_tool_calls = 3
    /\ tool_replies = 2
    /\ llm_plain_calls = 0
    /\ "response" \notin DOMAIN outcome
    /\ provider_calls >= 7

(* Every LLM call and every provider call of a request in progress returns *)
(* or fails: the awaits of search() complete.                               *)
LiveSpec ==
    /\ Spec
    /\ WF_vars(LLMFails \/ LLMNoChoices \/ LLMAnswers \/ LLMRequestsTools)
    /\ WF_vars(ToolExec)
    /\ WF_vars(ToolReturns)
    /\ WF_vars(FallbackReturns)
    /\ WF_vars(FinalSynthesis)

(* C13: every search request reaches DONE, and a step of a search request   *)
(* is one of INIT -> AWAIT_LLM, INIT -> DONE by the fallback, AWAIT_LLM ->  *)
(* DONE by a text answer or by the fallback, AWAIT_LLM -> TOOL_EXEC,        *)
(* TOOL_EXEC -> TOOL_EXEC or AWAIT_LLM, TOOL_EXEC -> FINAL_SYNTHESIS after   *)
(* the fifth iteration, FINAL_SYNTHESIS -> DONE; the fallback runs only     *)
(* from INIT or from AWAIT_LLM.  The wait for the executor is part of       *)
(* TOOL_EXEC and the wait for the fan-out part of the way to DONE.          *)
C13_ReachesDone ==
    /\ [][op' = "search" =>
            /\ << pc, pc' >> \in
                 ({"idle", "done", "crashed"} \X {"await_llm", "gather"})
                 \cup { << "await_llm", "done" >>,
                        << "await_llm", "gather" >>,
                        << "gather", "done" >>,
                        << "await_llm", "tool_exec" >>,
                        << "tool_exec", "await_tool" >>,
                        << "tool_exec", "tool_exec" >>,
                        << "tool_exec", "await_llm" >>,
                        << "tool_exec", "final_synthesis" >>,
                        << "await_tool", "tool_exec" >>,
                        << "await_tool", "await_llm" >>,
                        << "await_tool", "final_synthesis" >>,
                        << "final_synthesis", "done" >> }
            /\ pc' = "final_synthesis" =>
                 (pc \in {"tool_exec", "await_tool"} /\ iteration' = MAX_ITERATIONS)
            /\ pc' = "gather" => pc \in {"idle", "done", "crashed", "await_llm"}
         ]_vars
    /\ []((InLLMLoop \/ pc = "gather") => <>(pc = "done"))

(* The requests of the current assistant turn that name a tool of func_map: *)
(* the ones the loop hands to the executor.                                 *)
RequestedOfTurn ==
    {i \in 1..Len(tool_calls) : tool_calls[i].name \in func_map}

(* The requests of the turn the loop has passed to run_in_executor: while   *)
(* request idx is next, those before it, and request idx too while its      *)
(* result is awaited.                                                       *)
SubmittedOfTurn ==
    {i \in RequestedOfTurn : i < idx \/ (i = idx /\ pc = "await_tool")}

(* The tool turns that follow the last assistant turn of the conversation. *)
RepliesOfTurn(msgs) ==
    LET last == CHOOSE p \in 1..Len(msgs) :
                    /\ msgs[p].role = "assistant"
                    /\ \A r \in (p + 1)..Len(msgs) : msgs[r].role # "assistant"
    IN  Len(msgs) - last

(* The requests of the turn whose result the loop has awaited: the await of *)
(* lines 168-171 was followed by the append of lines 176-180.               *)
AwaitedOfTurn == {i \in RequestedOfTurn : i <= RepliesOfTurn(messages)}

(* C14: in one TOOL_EXEC step the tool calls of the assistant turn are      *)
(* submitted to the executor together: once the result of one of them has   *)
(* been awaited, all of them have been submitted.                           *)
C14_SubmittedTogether ==
    (pc \in {"tool_exec", "await_tool"} /\ AwaitedOfTurn # {})
        => SubmittedOfTurn = RequestedOfTurn

(* C15: the tool turns that answer an assistant turn follow it in the       *)
(* order of its requests, one tool turn per request, requests for unknown   *)
(* tools included, the i-th tool turn carrying the id of the i-th request;  *)
(* while the turn is being executed this holds of the requests executed so  *)
(* far.                                                                     *)
C15_ToolTurnsInRequestOrder ==
    InLLMLoop =>
      \A p \in 1..Len(messages) :
        messages[p].role = "assistant" =>
          LET ids      == messages[p].tool_calls
              current  == \A r \in (p + 1)..Len(messages) : messages[r].role # "assistant"
              answered == IF current /\ pc \in {"tool_exec", "await_tool"}
                          THEN idx - 1 ELSE Len(ids)
          IN  /\ p + answered <= Len(messages)
              /\ \A i \in 1..answered :
                    /\ messages[p + i].role = "tool"
                    /\ messages[p + i].tool_call_id = ids[i]
              /\ p + answered + 1 <= Len(messages)
                    => messages[p + answered + 1].role # "tool"

(* A turn of two requests was executed, one of them for a tool that is not *)
(* in func_map, and both tool turns are in the conversation.                *)
C15_Witness ==
    /\ op = "search" /\ pc = "await_llm"
    /\ iteration = 1
    /\ Len(messages) = 5
    /\ Len(messages[3].tool_calls) = 2
    /\ messages[4].tool_call_id = messages[3].tool_calls[1]
    /\ messages[5].tool_call_id = messages[3].tool_calls[2]
    /\ provider_calls = 1

(* C16: the conversation of a request starts as the system turn and the     *)
(* user turn carrying the query, and every step of the request only appends *)
(* to it: the earlier turns stay as they were, and between two LLM calls at *)
(* least one turn is appended.                                              *)
C16_ConversationGrows ==
    /\ [][\A q \in Queries :
            (op' = "search" /\ query' = q
                /\ pc \notin {"await_llm", "tool_exec", "await_tool"}
                /\ pc' = "await_llm")
            => /\ Len(messages') = 2
               /\ messages'[1].role = "system"
               /\ messages'[2] =
                    [role |-> "user",
                     content |-> "Research the following topic in the context of AI and machine learning: " \o q]
         ]_vars
    /\ [][(InLLMLoop /\ InLLMLoop')
            => /\ Len(messages') >= Len(messages)
               /\ SubSeq(messages', 1, Len(messages)) = messages
               /\ (pc = "await_llm" \/ pc' \in {"await_llm", "final_synthesis"})
                    => Len(messages') > Len(messages)
         ]_vars

(* The conversation given to the final LLM call: the two first turns, five  *)
(* assistant turns with their tool turns, and the last user turn.           *)
C16_Witness ==
    /\ op = "search" /\ pc = "final_synthesis"
    /\ Len(messages) >= 13
    /\ messages[1] = SystemTurn
    /\ messages[2] = UserTurn(query)
    /\ messages[3].role = "assistant"
    /\ messages[Len(messages)] = FinalUserTurn

(* C17: the value of a response key is the result of the last call of the   *)
(* key's tool.  A tool call of the loop replaces the value of its key with  *)
(* its result and leaves the other keys alone, a request for an unknown     *)
(* tool leaves all of them alone, as does every other step taken from the   *)
(* LLM call or the start of a pass that neither answers nor raises, so      *)
(* that the later of two calls wins, in one turn or across iterations; an   *)
(* answer of the loop or of the final synthesis returns the values as they  *)
(* are; a fallback after tool calls calls every tool called before again    *)
(* and returns the result of that call.                                     *)
C17_LastCallWins ==
    /\ [][\A up \in Upstream :
            (ToolReturnsWith(up) /\ pc' # "crashed")
            => all_sources' =
                 [all_sources EXCEPT ![TOOL_TO_SOURCE_KEY[tool_calls[idx].name]] =
                     Provider(TOOL_TO_SOURCE_KEY[tool_calls[idx].name], up)]
         ]_vars
    /\ [][((pc \in {"await_llm", "tool_exec"} /\ pc' \notin {"crashed", "done"})
              => all_sources' = all_sources)
          /\ ((pc \in {"await_llm", "final_synthesis"} /\ pc' = "done")
              => outcome'.sources = all_sources)
         ]_vars
    /\ [][pc = "gather" =>
            \A met \in FanOuts :
              FallbackReturnsWith(met.down, met.quiet)
              => \A k \in DOMAIN dispatched :
                   /\ \E i \in 1..Len(FallbackTaskNames) : FallbackTaskNames[i] = k
                   /\ outcome'.sources[k]
                          = Provider(k, UpstreamOf(k, met.down, met.quiet))
         ]_vars

(* Two calls of the paper search in one request, the later one failed: the  *)
(* key holds its error record.                                              *)
C17_Witness ==
    /\ op = "search" /\ pc = "done"
    /\ "response" \in DOMAIN outcome
    /\ available.arxiv
    /\ provider_calls = 2
    /\ DOMAIN dispatched = {"arxiv"}
    /\ outcome.sources["arxiv"] = ErrorList

(* C18: the final synthesis comes after five iterations with one user turn  *)
(* appended, the only user turn besides the query's; it makes one LLM call  *)
(* without tool schemas and ends the request: with the text of the reply,   *)
(* or, when the call fails, with no response, no fan-out and the sources    *)
(* as the five iterations left them.                                        *)
C18_FinalSynthesis ==
    /\ [](pc = "final_synthesis"
            => /\ iteration = MAX_ITERATIONS
               /\ llm_tool_calls = MAX_ITERATIONS
               /\ llm_plain_calls = 0
               /\ messages[Len(messages)] =
                    [role |-> "user",
                     content |-> "Please provide your final summary now based on all the information gathered."]
               /\ Cardinality({i \in 1..Len(messages) : messages[i].role = "user"}) = 2)
    /\ [][FinalSynthesis
            => /\ pc' = "done"
               /\ llm_plain_calls' = 1
               /\ llm_tool_calls' = MAX_ITERATIONS
               /\ provider_calls' = provider_calls
               /\ dispatched' = dispatched
               /\ outcome'.query = query
               /\ outcome'.sources = all_sources
               /\ \/ DOMAIN outcome' = {"query", "sources", "success"}
                  \/ /\ DOMAIN outcome' = {"query", "response", "sources", "success"}
                     /\ outcome'.response = LLMText
         ]_vars

(* The final LLM call failed: the outcome has no response and keeps the     *)
(* records the loop collected.                                              *)
C18_Witness ==
    /\ op = "search" /\ pc = "done"
    /\ llm_tool_calls = MAX_ITERATIONS
    /\ llm_plain_calls = 1
    /\ "response" \notin DOMAIN outcome
    /\ outcome.sources["arxiv"] = Records
    /\ provider_calls < 7

(* The source keys of the tools _get_available_tools returns. *)
AdvertisedKeys ==
    { TOOL_TO_SOURCE_KEY[_get_available_tools[i]] : i \in 1..Len(_get_available_tools) }

(* The source keys of the tasks of _fallback_search. *)
FallbackKeys == { FallbackTaskNames[i] : i \in 1..Len(FallbackTaskNames) }

(* C19: the fallback calls the tools the registry would advertise, each     *)
(* once, and no other tool; it makes no LLM call and returns no response.   *)
C19_FallbackCallsAvailable ==
    /\ [][(TakesFallback /\ Search)
            => /\ FallbackKeys = AdvertisedKeys
               /\ DOMAIN dispatched' = AdvertisedKeys
               /\ provider_calls' = Cardinality(AdvertisedKeys)
               /\ llm_tool_calls' = 0 /\ llm_plain_calls' = 0
         ]_vars
    /\ [][LLMFails
            => /\ FallbackKeys = AdvertisedKeys
               /\ provider_calls' = provider_calls + Cardinality(AdvertisedKeys)
               /\ llm_tool_calls' = llm_tool_calls + 1 /\ llm_plain_calls' = 0
         ]_vars
    /\ [][FallbackReturns
            => /\ "response" \notin DOMAIN outcome'
               /\ provider_calls' = provider_calls
               /\ llm_tool_calls' = llm_tool_calls /\ llm_plain_calls' = 0
         ]_vars

(* The request was answered by the fan-out of _fallback_search. *)
FallbackAnswered ==
    /\ op = "search" /\ pc = "done"
    /\ "response" \notin DOMAIN outcome
    /\ llm_plain_calls = 0

(* The request was answered by search_source calling a provider. *)
SourceAnswered ==
    op = "search_source" /\ pc = "done" /\ source \in ResponseKeys

(* C20 as written: in the fallback and in search_source every tool is       *)
(* called with the query followed by the domain context, the video search   *)
(* with the query followed by its own context; no tool is called with the   *)
(* bare query; search_source and the fallback pass a source the same query. *)
C20_EveryQueryAugmented ==
    /\ (FallbackAnswered \/ SourceAnswered) =>
         \A k \in DOMAIN dispatched :
            /\ dispatched[k] =
                 [query |-> IF k = "youtube"
                            THEN query \o " " \o YOUTUBE_AI_ML_CONTEXT
                            ELSE query \o " " \o AI_ML_CONTEXT]
            /\ dispatched[k].query # query
    /\ \A s \in ALL_SOURCE_KEYS, q \in Queries : SourceQuery(s, q) = FallbackQuery(s, q)

(* C20 amended: in the fallback and in search_source the video search is    *)
(* called with the query followed by its own context, the Anthropic search  *)
(* with the bare query, and every other tool with the query followed by the *)
(* domain context; search_source and the fallback pass a source the same    *)
(* query.                                                                   *)
C20_QueryAugmentedButAnthropic ==
    /\ (FallbackAnswered \/ SourceAnswered) =>
         \A k \in DOMAIN dispatched :
            dispatched[k] =
              [query |-> CASE k = "youtube"   -> query \o " " \o YOUTUBE_AI_ML_CONTEXT
                           [] k = "anthropic" -> query
                           [] OTHER           -> query \o " " \o AI_ML_CONTEXT]
    /\ YOUTUBE_AI_ML_CONTEXT # AI_ML_CONTEXT
    /\ \A s \in ALL_SOURCE_KEYS, q \in Queries : SourceQuery(s, q) = FallbackQuery(s, q)

(* A fan-out over the nine tools: the video search got its own context and  *)
(* the Anthropic search the bare query.                                     *)
C20_Witness ==
    /\ FallbackAnswered
    /\ provider_calls = 9
    /\ dispatched["youtube"].query = query \o " " \o YOUTUBE_AI_ML_CONTEXT
    /\ dispatched["arxiv"].query = query \o " " \o AI_ML_CONTEXT
    /\ dispatched["anthropic"].query = query

-----------------------------------------------------------------------------
(* C22: when the LLM asks for a tool whose name is not in the available-    *)
(* tool map (a name no tool has, or a tool left out of the map), no         *)
(* provider call is dispatched, the sources mapping is unchanged, a tool    *)
(* turn carrying the id of the request and, as its content, the serialized  *)
(* error record is appended to the conversation, and the loop goes on.      *)
C22_UnknownToolAnswered ==
    [][(pc = "tool_exec" /\ tool_calls[idx].name \notin func_map /\ ToolExec)
         => /\ provider_calls' = provider_calls
            /\ dispatched' = dispatched
            /\ all_sources' = all_sources
            /\ Len(messages') > Len(messages)
            /\ SubSeq(messages', 1, Len(messages)) = messages
            /\ messages'[Len(messages) + 1] = ToolTurn(tool_calls[idx].id, ErrorDict)
            /\ pc' \in {"tool_exec", "await_llm", "final_synthesis"}
            /\ outcome' = outcome
      ]_vars

(* The loop after the two requests of the first turn: one, search_arxiv,    *)
(* was dispatched, the other named a tool outside the map; both were        *)
(* answered by a tool turn, and the LLM is called again.                    *)
C22_Witness ==
    /\ pc = "await_llm"
    /\ iteration = 1
    /\ ToolTurnCount(messages) = 2
    /\ messages[Len(messages)].role = "tool"
    /\ messages[Len(messages)].tool_call_id = CallId(1, 2)
    /\ messages[Len(messages)].content = json_dumps(ErrorDict)
    /\ provider_calls = 1
    /\ DOMAIN dispatched = {"arxiv"}
    /\ all_sources["arxiv"] = Records

-----------------------------------------------------------------------------
(* C28: when an LLM call fails after at least one completed iteration, the  *)
(* returned sources are a freshly initialized mapping filled only by the    *)
(* fan-out: every key of a fallback task holds what that task returned, and *)
(* a key whose task was not run holds its initial empty value; no result of *)
(* an earlier iteration appears unless the fan-out produced it.             *)
C28_FallbackSourcesFresh ==
    [][(pc = "gather" /\ iteration >= 1) =>
          \A met \in FanOuts :
            FallbackReturnsWith(met.down, met.quiet)
            => outcome'.sources =
                 [k \in ALL_SOURCE_KEYS |->
                     IF k \in FallbackKeys
                     THEN Provider(k, UpstreamOf(k, met.down, met.quiet))
                     ELSE InitialValue(k)]
      ]_vars

(* A fallback after tool calls of the loop: more calls were dispatched than *)
(* the fan-out has tasks, the fan-out's arXiv call failed, and the video    *)
(* search, which was not run, left its key empty.                           *)
C28_Witness ==
    /\ FallbackAnswered
    /\ llm_tool_calls >= 2
    /\ provider_calls > Len(FallbackTaskNames)
    /\ "youtube" \notin FallbackKeys
    /\ outcome.sources["arxiv"] = ErrorList
    /\ outcome.sources["youtube"] = EmptyList
    /\ outcome.sources["semantic_scholar"] = Records

-----------------------------------------------------------------------------
(* The configured credentials change between two requests: settings is a    *)
(* mutable module-level object (config.py:26) that every request reads      *)
(* anew.                                                                    *)
SetConfig ==
    /\ Quiescent
    /\ \E k \in {"groq_api_key", "tavily_api_key", "youtube_api_key"} :
           settings' = [settings EXCEPT ![k] = ~@]
    /\ UNCHANGED << available, initialized, client, pc, op, query, source,
                    iteration, func_map, messages, all_sources, tool_calls, idx,
                    outcome, llm_tool_calls, llm_plain_calls, tool_replies,
                    provider_calls, dispatched >>
    /\ UNCHANGED sub_vars

NextConfig ==
    \/ Search
    \/ SearchSource
    \/ SourceReturns
    \/ LLMFails
    \/ FallbackReturns
    \/ LLMNoChoices
    \/ LLMAnswers
    \/ LLMRequestsTools
    \/ ToolExec
    \/ ToolReturns
    \/ FinalSynthesis
    \/ OtherSearchArrives
    \/ SetConfig

(* The service with the credentials changing between requests. *)
ConfigSpec == Init /\ [][NextConfig]_vars

(* C21: a tool is advertised if and only if its package is available and    *)
(* its credential, when it needs one, is set at the time of the call: the   *)
(* map a request holds is the registry's verdict on the credentials as they *)
(* are during the request, also when they changed since the request before; *)
(* the advertised schema names are the keys of the map.                     *)
C21_AdvertisedIffAvailable ==
    InLLMLoop =>
        /\ func_map \subseteq TOOL_FUNCTIONS
        /\ "search_arxiv" \in func_map <=> available.arxiv
        /\ "search_wikipedia" \in func_map <=> available.wikipedia
        /\ "search_web" \in func_map <=> (available.tavily /\ settings.tavily_api_key)
        /\ "search_youtube" \in func_map <=> (available.youtube /\ settings.youtube_api_key)
        /\ {"search_semantic_scholar", "search_huggingface", "search_github",
            "search_papers_with_code", "search_anthropic"} \subseteq func_map
        /\ func_map = {_get_available_tools[i] : i \in 1..Len(_get_available_tools)}

(* A request made after the credentials changed (the client was built with  *)
(* a key that is no longer configured) advertises the web search, whose key *)
(* is set now, and not the video search, whose key is not.                  *)
C21_Witness ==
    /\ pc = "await_llm"
    /\ client /\ ~settings.groq_api_key
    /\ settings.tavily_api_key /\ ~settings.youtube_api_key
    /\ "search_web" \in func_map
    /\ "search_youtube" \notin func_map
    /\ Cardinality(func_map) = 8

-----------------------------------------------------------------------------
(* C27: the LLM-credential verdict is taken once: after the first access of *)
(* the client it never changes, and every later search takes the branch of  *)
(* that verdict whatever the configured credential is by then: with no      *)
(* client it returns the fan-out without an LLM call, with a client it      *)
(* enters the loop.                                                         *)
C27_VerdictTakenOnce ==
    [][/\ initialized => (initialized' /\ client' = client)
       /\ (initialized /\ Search)
            => /\ client => pc' = "await_llm"
               /\ ~client => /\ pc' = "gather"
                             /\ llm_tool_calls' = 0 /\ llm_plain_calls' = 0
                             /\ provider_calls' = Len(FallbackTaskNames)
       /\ (pc = "gather" /\ llm_tool_calls = 0)
            => /\ pc' \in {"gather", "done"}
               /\ llm_tool_calls' = 0 /\ llm_plain_calls' = 0
               /\ provider_calls' = provider_calls
               /\ pc' = "done" => "response" \notin DOMAIN outcome'
      ]_vars

(* A search answered by the fan-out, with no LLM call, although the LLM     *)
(* credential is configured: it was supplied after the first access.        *)
C27_Witness ==
    /\ FallbackAnswered
    /\ initialized /\ ~client
    /\ settings.groq_api_key
    /\ llm_tool_calls = 0
    /\ provider_calls >= 7

-----------------------------------------------------------------------------
(* The service object before its first request, where a specification is    *)
(* about another part of the application.                                   *)
(* No request of the single-request model is in flight. *)
AgentFrameUnused ==
    /\ pc = "idle" /\ op = "none" /\ query = "" /\ source = ""
    /\ iteration = 0 /\ func_map = {} /\ messages = << >> /\ all_sources = << >>
    /\ tool_calls = << >> /\ idx = 0 /\ outcome = NoOutcome
    /\ llm_tool_calls = 0 /\ llm_plain_calls = 0 /\ tool_replies = 0
    /\ provider_calls = 0 /\ dispatched = << >>

AgentUnused ==
    /\ settings = [groq_api_key |-> FALSE, tavily_api_key |-> FALSE,
                   youtube_api_key |-> FALSE]
    /\ available = [arxiv |-> TRUE, wikipedia |-> TRUE, tavily |-> TRUE,
                    youtube |-> TRUE]
    /\ initialized = FALSE /\ client = FALSE
    /\ AgentFrameUnused

-----------------------------------------------------------------------------
(* The abstract field of a paper record: tools/arxiv.py:31,                 *)
(* tools/semantic_scholar.py:23-27, tools/papers_with_code.py:21-26.        *)
(* A text is the sequence of its characters.                                *)

(* The longest summary the upstream service returns in the model. *)
MaxSummaryLen == 520

(* The slice bound of the three providers. *)
ABSTRACT_SLICE == 500

Text(n) == [i \in 1..n |-> "x"]

Ellipsis == << ".", ".", "." >>

(* X[:500] + "..." if len(X) > 500 else X *)
SliceWithEllipsis(X) ==
    IF Len(X) > ABSTRACT_SLICE
    THEN SubSeq(X, 1, ABSTRACT_SLICE) \o Ellipsis
    ELSE X

(* arxiv.py:31, on paper.summary *)
arxiv_abstract(paper_summary) == SliceWithEllipsis(paper_summary.text)

(* semantic_scholar.py:23 and 27: abstract = paper.get("abstract") or "" *)
semantic_scholar_abstract(paper_abstract) ==
    LET abstract_text == IF paper_abstract.present THEN paper_abstract.text ELSE << >>
    IN  SliceWithEllipsis(abstract_text)

(* papers_with_code.py:21 and 26: summary = paper.get("summary", "") *)
papers_with_code_abstract(paper_summary) ==
    LET summary_text == IF paper_summary.present THEN paper_summary.text ELSE << >>
    IN  SliceWithEllipsis(summary_text)

PaperSources == {"arxiv", "semantic_scholar", "papers_with_code"}

(* What the upstream service returns for the field: a text, or no value     *)
(* (null for Semantic Scholar, a missing key for trending papers).          *)
Summaries ==
    { [present |-> TRUE, text |-> Text(n)] : n \in 0..MaxSummaryLen }
    \cup { [present |-> FALSE] }

NotBuilt == [built |-> FALSE]

AbstractInit ==
    /\ paper_source \in PaperSources
    /\ summary \in Summaries
    /\ (paper_source = "arxiv" => summary.present)
    /\ abstract = NotBuilt
    /\ AgentUnused /\ PoolUnused /\ ConcUnused /\ AnthropicUnused
    /\ BookmarkUnused /\ IngestUnused

BuildRecord(src, text) ==
    /\ paper_source = src
    /\ abstract = NotBuilt
    /\ abstract' = [built |-> TRUE, text |-> text]
    /\ UNCHANGED << paper_source, summary >>
    /\ UNCHANGED << agent_vars, pool_vars, conc_vars, anthropic_vars,
                    bookmark_vars, ingest_vars >>

ArxivRecord == BuildRecord("arxiv", arxiv_abstract(summary))

SemanticScholarRecord ==
    BuildRecord("semantic_scholar", semantic_scholar_abstract(summary))

PapersWithCodeRecord ==
    BuildRecord("papers_with_code", papers_with_code_abstract(summary))

AbstractNext ==
    \/ ArxivRecord
    \/ SemanticScholarRecord
    \/ PapersWithCodeRecord

AbstractSpec == AbstractInit /\ [][AbstractNext]_vars

(* C26: every abstract field returned by the arXiv, Semantic Scholar and    *)
(* trending-papers providers has at most 500 characters.                    *)
C26_AbstractAtMost500 ==
    abstract.built => Len(abstract.text) <= 500

-----------------------------------------------------------------------------
(* search_anthropic on a fetched page: tools/anthropic.py:7-47.  A string   *)
(* is the sequence of its characters.                                       *)

(* Links of one page in the model, at most. *)
MaxLinks == 3

(* A letter outside ASCII is written as its letter and a mark ("E'" is E    *)
(* with acute, "A'" A with diaeresis, "ss'" sharp s), a control character   *)
(* by its name ("TAB" is U+0009, "NL" U+000A, "VT" U+000B, "FF" U+000C,     *)
(* "CR" U+000D, "FS" U+001C, "GS" U+001D, "RS" U+001E, "US" U+001F, "NEL"   *)
(* U+0085, "NBSP" U+00A0) and another character outside ASCII by its code   *)
(* point ("U+2003" is the em space).  The letters str.lower changes, of the *)
(* alphabet of the model, and what it makes of them:                        *)
UpperCase ==
    << "A", "B", "C", "D", "E", "F", "G", "H", "I", "J", "K", "L", "M",
       "N", "O", "P", "Q", "R", "S", "T", "U", "V", "W", "X", "Y", "Z",
       "E'", "A'", "O'", "U'" >>

LowerCase ==
    << "a", "b", "c", "d", "e", "f", "g", "h", "i", "j", "k", "l", "m",
       "n", "o", "p", "q", "r", "s", "t", "u", "v", "w", "x", "y", "z",
       "e'", "a'", "o'", "u'" >>

(* The characters str.split() and str.strip() take for whitespace and \s    *)
(* of a str pattern matches, the 29 characters of str.isspace: U+0009 to    *)
(* U+000D, U+001C to U+001F, the space, U+0085, U+00A0, U+1680, U+2000 to   *)
(* U+200A, U+2028, U+2029, U+202F, U+205F and U+3000.                       *)
Whitespace ==
    { "TAB", "NL", "VT", "FF", "CR", "FS", "GS", "RS", "US", " ", "NEL", "NBSP",
      "U+1680", "U+2000", "U+2001", "U+2002", "U+2003", "U+2004", "U+2005",
      "U+2006", "U+2007", "U+2008", "U+2009", "U+200A", "U+2028", "U+2029",
      "U+202F", "U+205F", "U+3000" }

(* str.lower *)
lower(s) ==
    [i \in 1..Len(s) |->
        IF \E k \in 1..Len(UpperCase) : UpperCase[k] = s[i]
        THEN LowerCase[CHOOSE k \in 1..Len(UpperCase) : UpperCase[k] = s[i]]
        ELSE s[i]]

(* str.split(): the maximal runs of characters that are not whitespace *)
RECURSIVE split(_)
split(s) ==
    IF s = << >> THEN << >>
    ELSE IF Head(s) \in Whitespace THEN split(Tail(s))
    ELSE LET n == IF \E i \in 1..Len(s) : s[i] \in Whitespace
                  THEN (CHOOSE i \in 1..Len(s) :
                            /\ s[i] \in Whitespace
                            /\ \A j \in 1..(i - 1) : s[j] \notin Whitespace) - 1
                  ELSE Len(s)
         IN  << SubSeq(s, 1, n) >> \o split(SubSeq(s, n + 1, Len(s)))

(* term in text *)
contains(text, term) ==
    \E i \in 0..(Len(text) - Len(term)) : SubSeq(text, i + 1, i + Len(term)) = term

(* s.startswith(prefix) *)
startswith(s, prefix) ==
    Len(s) >= Len(prefix) /\ SubSeq(s, 1, Len(prefix)) = prefix

HTTP == 
    << "h", "t", "t", "p" >>

ANTHROPIC_BASE == 
    << "h", "t", "t", "p", "s", ":", "/", "/", "w", "w", "w", ".", "a",
       "n", "t", "h", "r", "o", "p", "i", "c", ".", "c", "o", "m" >>

(* Lines 20-37 for one link: the record appended to results, or nothing.    *)
(* A link has a title element or not, a description paragraph or not, and   *)
(* an href.                                                                 *)
LinkRecord(link, query_terms) ==
    IF ~link.has_title THEN << >>
    ELSE IF link.title = << >> \/ Len(link.title) < 10 THEN << >>
    ELSE LET description == IF link.has_p THEN link.p ELSE << >>
             text == lower(link.title \o << " " >> \o description)
             href == IF startswith(link.href, HTTP) THEN link.href
                     ELSE ANTHROPIC_BASE \o link.href
         IN  IF \E i \in 1..Len(query_terms) : contains(text, query_terms[i])
             THEN << [title |-> link.title,
                      description |-> SubSeq(description, 1,
                                             IF Len(description) < 300
                                             THEN Len(description) ELSE 300),
                      url |-> href] >>
             ELSE << >>

(* Lines 19-37: results, over the links in document order *)
RECURSIVE CollectResults(_, _)
CollectResults(links, query_terms) ==
    IF links = << >> THEN << >>
    ELSE LinkRecord(Head(links), query_terms) \o CollectResults(Tail(links), query_terms)

(* Lines 38-44: the first record of every URL *)
RECURSIVE DeduplicateByUrl(_, _)
DeduplicateByUrl(results, seen) ==
    IF results = << >> THEN << >>
    ELSE IF Head(results).url \in seen THEN DeduplicateByUrl(Tail(results), seen)
    ELSE << Head(results) >>
         \o DeduplicateByUrl(Tail(results), seen \cup {Head(results).url})

(* unique[:max_results], max_results positive *)
Slice(unique, max_results) ==
    SubSeq(unique, 1, IF Len(unique) < max_results THEN Len(unique) ELSE max_results)

(* search_anthropic(query, max_results) when the page was fetched *)
search_anthropic_on(links, q, max_results) ==
    Slice(DeduplicateByUrl(CollectResults(links, split(lower(q))), {}), max_results)

(* Texts of the model. *)
TitleSafety == 
    << "A", "I", " ", "S", "a", "f", "e", "t", "y", " ", "L", "e", "v",
       "e", "l", "s" >>

TitleInterpretability == 
    << "I", "n", "t", "e", "r", "p", "r", "e", "t", "a", "b", "i", "l",
       "i", "t", "y" >>

TitleEcole == 
    << "E'", "C", "O", "L", "E", " ", "N", "O", "R", "M", "A", "L", "E" >>

TitleShort == 
    << "R", "e", "s", "e", "a", "r", "c", "h" >>

DescriptionSafety == 
    << "S", "a", "f", "e", "t", "y", " ", "w", "o", "r", "k" >>

HrefA == 
    << "/", "a" >>

HrefB == 
    << "/", "b" >>

HrefAbsoluteA == 
    << "h", "t", "t", "p", "s", ":", "/", "/", "w", "w", "w", ".", "a",
       "n", "t", "h", "r", "o", "p", "i", "c", ".", "c", "o", "m", "/",
       "a" >>

PageLinks ==
    { [has_title |-> TRUE, title |-> TitleSafety, has_p |-> FALSE, href |-> HrefA],
      [has_title |-> TRUE, title |-> TitleInterpretability, has_p |-> TRUE,
       p |-> DescriptionSafety, href |-> HrefB],
      [has_title |-> TRUE, title |-> TitleSafety, has_p |-> FALSE,
       href |-> HrefAbsoluteA],
      [has_title |-> TRUE, title |-> TitleEcole, has_p |-> FALSE, href |-> HrefB],
      [has_title |-> TRUE, title |-> TitleShort, has_p |-> TRUE,
       p |-> DescriptionSafety, href |-> HrefB],
      [has_title |-> FALSE, href |-> HrefA] }

Pages == UNION { [1..n -> PageLinks] : n \in 0..MaxLinks }

QuerySafety == 
    << "s", "a", "f", "e", "t", "y" >>

QuerySafetyInterpretability == 
    << "S", "A", "F", "E", "T", "Y", " ", "i", "n", "t", "e", "r", "p",
       "r", "e", "t", "a", "b", "i", "l", "i", "t", "y" >>

QueryVision == 
    << "v", "i", "s", "i", "o", "n" >>

QueryEcole == 
    << "e'", "c", "o", "l", "e" >>

QueryVisionTabSafety == 
    << "v", "i", "s", "i", "o", "n", "TAB", "s", "a", "f", "e", "t", "y" >>

(* 'vision\x1csafety' *)
QueryVisionFsSafety == 
    << "v", "i", "s", "i", "o", "n", "FS", "s", "a", "f", "e", "t", "y" >>

AnthropicQueries ==
    { QuerySafety, QuerySafetyInterpretability, QueryVision, QueryEcole,
      QueryVisionTabSafety, QueryVisionFsSafety, << >> }

AnthropicMaxResults == {1, 2, 5}

NotReturned == [returned |-> FALSE]

AnthropicInit ==
    /\ page \in Pages
    /\ an_query \in AnthropicQueries
    /\ an_max_results \in AnthropicMaxResults
    /\ an_results = NotReturned
    /\ AgentUnused /\ PoolUnused /\ ConcUnused /\ AbstractUnused
    /\ BookmarkUnused /\ IngestUnused

AnthropicFrame ==
    /\ UNCHANGED << page, an_query, an_max_results >>
    /\ UNCHANGED << agent_vars, pool_vars, conc_vars, abstract_vars,
                    bookmark_vars, ingest_vars >>

(* The page is fetched and lines 16-45 run. *)
SearchAnthropicPage ==
    /\ an_results = NotReturned
    /\ an_results' = [returned |-> TRUE,
                      value |-> search_anthropic_on(page, an_query, an_max_results)]
    /\ AnthropicFrame

(* The request raises: lines 46-47. *)
SearchAnthropicFails ==
    /\ an_results = NotReturned
    /\ an_results' = [returned |-> TRUE, value |-> << [error |-> "str(e)"] >>]
    /\ AnthropicFrame

AnthropicNext ==
    \/ SearchAnthropicPage
    \/ SearchAnthropicFails

AnthropicSpec == AnthropicInit /\ [][AnthropicNext]_vars

(* The records of a returned list. *)
ReturnedRecords ==
    IF an_results.returned
    THEN SelectSeq(an_results.value, LAMBDA r : "title" \in DOMAIN r)
    ELSE << >>

(* C25: search_anthropic returns only records whose title plus description  *)
(* contains, without regard to case, every term of the query; the returned  *)
(* records have pairwise distinct URLs and are at most max_results.         *)
C25_EveryTermMatches ==
    /\ \A i \in 1..Len(ReturnedRecords) :
          \A t \in 1..Len(split(lower(an_query))) :
              contains(lower(ReturnedRecords[i].title \o << " " >>
                             \o ReturnedRecords[i].description),
                       split(lower(an_query))[t])
    /\ \A i, j \in 1..Len(ReturnedRecords) :
          i # j => ReturnedRecords[i].url # ReturnedRecords[j].url
    /\ Len(ReturnedRecords) <= an_max_results

-----------------------------------------------------------------------------
(* deduplicate_articles (utils/categorizer.py:72-110) and save_articles     *)
(* (routers/sources.py:18-58).  An article is kept by its source_id and its *)
(* title, a title being the sequence of its characters.                     *)

(* Articles of one fetched batch in the model, at most. *)
MaxBatch == 3

(* The characters \w matches, of the alphabet of the model: letters, digits *)
(* and the underscore.  The other characters of a title are whitespace or   *)
(* punctuation.                                                             *)
WordCharacters ==
    { UpperCase[k] : k \in 1..Len(UpperCase) }
        \cup { LowerCase[k] : k \in 1..Len(LowerCase) }
        \cup {"ss'", "0", "1", "2", "3", "4", "5", "6", "7", "8", "9", "_"}

(* Lines 82-86: title.lower().strip(), re.sub(r"[^\w\s]", "", title), which *)
(* removes every character that is neither a word character nor            *)
(* whitespace, and the words of the rest; the normalized title is kept as   *)
(* the sequence of its words (the string is these words joined by single    *)
(* spaces).                                                                 *)
normalized_title(title) ==
    split(SelectSeq(lower(title),
                    LAMBDA c : c \in WordCharacters \/ c \in Whitespace))

(* set(normalized_title.split()) *)
words_of(normalized) == { normalized[i] : i \in 1..Len(normalized) }

(* Lines 96-101 with the threshold 0.9 *)
is_similar_above_90(normalized, seen_title) ==
    LET title_words == words_of(normalized)
        seen_words  == words_of(seen_title)
        overlap     == Cardinality(title_words \cap seen_words)
        max_len     == IF Cardinality(title_words) > Cardinality(seen_words)
                       THEN Cardinality(title_words) ELSE Cardinality(seen_words)
    IN  /\ title_words # {} /\ seen_words # {}
        /\ 10 * overlap > 9 * max_len

(* Lines 96-101: overlap / max_len > 0.8 *)
is_similar(normalized, seen_title) ==
    LET title_words == words_of(normalized)
        seen_words  == words_of(seen_title)
        overlap     == Cardinality(title_words \cap seen_words)
        max_len     == IF Cardinality(title_words) > Cardinality(seen_words)
                       THEN Cardinality(title_words) ELSE Cardinality(seen_words)
    IN  /\ title_words # {} /\ seen_words # {}
        /\ 10 * overlap > 8 * max_len

(* The loop of lines 80-108 over the remaining articles *)
RECURSIVE deduplicate_loop(_, _, _, _)
deduplicate_loop(articles, seen_ids, seen_titles, unique) ==
    IF articles = << >> THEN unique
    ELSE LET article    == Head(articles)
             normalized == normalized_title(article.title)
         IN  IF article.source_id \in seen_ids
             THEN deduplicate_loop(Tail(articles), seen_ids, seen_titles, unique)
             ELSE IF \E seen_title \in seen_titles : is_similar(normalized, seen_title)
             THEN deduplicate_loop(Tail(articles), seen_ids, seen_titles, unique)
             ELSE deduplicate_loop(Tail(articles),
                                   seen_ids \cup {article.source_id},
                                   seen_titles \cup {normalized},
                                   Append(unique, article))

deduplicate_articles(articles) == deduplicate_loop(articles, {}, {}, << >>)

TitleScaling == 
    << "S", "c", "a", "l", "i", "n", "g", " ", "L", "a", "w", "s", " ",
       "f", "o", "r", " ", "L", "a", "r", "g", "e", " ", "L", "a", "n",
       "g", "u", "a", "g", "e", " ", "M", "o", "d", "e", "l", "s" >>

(* 'SCALING\x1flaws: for\t(large)\u2003language\x85models?!' *)
TitleScalingVariant == 
    << "S", "C", "A", "L", "I", "N", "G", "US", "l", "a", "w", "s", ":",
       " ", "f", "o", "r", "TAB", "(", "l", "a", "r", "g", "e", ")", "U+2003",
       "l", "a", "n", "g", "u", "a", "g", "e", "NEL", "m", "o", "d", "e",
       "l", "s", "?", "!" >>

TitleScalingShort == 
    << "S", "c", "a", "l", "i", "n", "g", " ", "L", "a", "w", "s", " ",
       "f", "o", "r", " ", "L", "a", "r", "g", "e", " ", "M", "o", "d",
       "e", "l", "s" >>

TitleLaws == 
    << "L", "a", "w", "s", " ", "f", "o", "r", " ", "L", "a", "r", "g",
       "e", " ", "M", "o", "d", "e", "l", "s" >>

BatchTitles ==
    { TitleScaling, TitleScalingVariant, TitleScalingShort, TitleLaws, << >> }

SourceIds == {"arxiv:2401.00001", "arxiv:2401.00002"}

Articles == [source_id : SourceIds, title : BatchTitles]

Batches == UNION { [1..n -> Articles] : n \in 0..MaxBatch }

(* The save_articles calls of the model: the two of the ingestion followed, *)
(* one after the other with the same deduplicated batch, and the call of    *)
(* another refresh request, which has a database session of its own.        *)
SaveCalls == {"first", "second", "other"}

(* What the other refresh request fetched and deduplicated. *)
OtherArticles == << [source_id |-> "arxiv:2401.00002", title |-> TitleLaws] >>

NotCalled ==
    [pc |-> "idle", articles |-> << >>, pass |-> 0, pending |-> {}, saved_count |-> 0,
     next |-> ""]

NoWriter == [session |-> "none", rows |-> {}]

(* The other routes that write to the database file (config.py:10), each    *)
(* request in a session of its own: summarize_article                       *)
(* (routers/articles.py:121-150), add_bookmark (routers/bookmarks.py:29-52) *)
(* and remove_bookmark (55-82).  Their first statement that writes is the   *)
(* UPDATE of a row of articles; none of them inserts or deletes an article. *)
(* The session of such a request, whichever of the three routes it is:      *)
OtherWriter == "another route"

IngestInit ==
    /\ batch \in Batches
    /\ unique_articles = << >>
    /\ stored \in { {}, {"arxiv:2401.00001"} }
    /\ saves = [c \in SaveCalls |-> NotCalled]
    /\ ingest_tx = NoWriter
    /\ ingest_pc = "fetched"
    /\ AgentUnused /\ PoolUnused /\ ConcUnused /\ AnthropicUnused
    /\ AbstractUnused /\ BookmarkUnused

IngestFrame ==
    UNCHANGED << agent_vars, pool_vars, conc_vars, anthropic_vars, abstract_vars,
                 bookmark_vars >>

Deduplicate ==
    /\ ingest_pc = "fetched"
    /\ unique_articles' = deduplicate_articles(batch)
    /\ ingest_pc' = "deduplicated"
    /\ UNCHANGED << batch, stored, saves, ingest_tx >>
    /\ IngestFrame

(* save_articles(db, articles) up to its first await: lines 20-24, the      *)
(* SELECT of the first pass, or lines 20-22 and 57 for an empty list.       *)
EnterSave(c, articles) ==
    /\ saves[c].pc = "idle"
    /\ saves' = [saves EXCEPT ![c] =
                    [pc |-> IF articles = << >> THEN "commit" ELSE "select",
                     articles |-> articles, pass |-> 1, pending |-> {},
                     saved_count |-> 0, next |-> ""]]
    /\ UNCHANGED << batch, unique_articles, stored, ingest_tx, ingest_pc >>
    /\ IngestFrame

Ended(c) == saves[c].pc \in {"returned", "IntegrityError", "OperationalError"}

SaveArticles ==
    /\ ingest_pc = "deduplicated"
    /\ EnterSave("first", unique_articles)

(* The same batch is saved again once the first call has ended. *)
SaveArticlesAgain ==
    /\ Ended("first")
    /\ EnterSave("second", unique_articles)

(* Another refresh request reaches its save_articles call. *)
OtherRefreshSaves ==
    /\ ingest_pc = "deduplicated"
    /\ EnterSave("other", OtherArticles)

(* The rows call c has written and not committed. *)
Written(c) == IF ingest_tx.session = c THEN ingest_tx.rows ELSE {}

(* The INSERT waits while another session holds the write transaction of    *)
(* the database file.                                                       *)
WaitsForWriter(c) == ingest_tx.session \notin {"none", c}

(* models/article.py:11, unique=True: the INSERT of a source_id the table   *)
(* holds fails.                                                             *)
SourceIdViolation(c) == saves[c].pending \cap (stored \cup Written(c)) # {}

(* The SELECT of line 24 returns and the pass goes on to the next await,    *)
(* lines 27-55: the article is skipped or added to the session.  The next   *)
(* statement is the SELECT of the next pass or the COMMIT of line 57, and   *)
(* before either the INSERT of the article the session has added.           *)
SelectReturns(c) ==
    /\ saves[c].pc = "select"
    /\ LET f        == saves[c]
           id       == f.articles[f.pass].source_id
           existing == id \in stored \cup Written(c)
           next     == IF f.pass < Len(f.articles) THEN "select" ELSE "commit"
       IN  saves' = [saves EXCEPT ![c] =
                [f EXCEPT !.pending = IF existing THEN {} ELSE {id},
                          !.saved_count = IF existing THEN @ ELSE @ + 1,
                          !.pass = @ + 1,
                          !.pc = IF existing THEN next ELSE "flush",
                          !.next = IF existing THEN "" ELSE next]]
    /\ UNCHANGED << batch, unique_articles, stored, ingest_tx, ingest_pc >>
    /\ IngestFrame

(* The flush before the SELECT of line 24 or the COMMIT of line 57: the     *)
(* INSERT of the article added in line 54.  It opens the write transaction  *)
(* of the session, or raises IntegrityError with the transaction open.      *)
FlushInserts(c) ==
    /\ saves[c].pc = "flush"
    /\ ~WaitsForWriter(c)
    /\ IF SourceIdViolation(c)
       THEN /\ ingest_tx' = [session |-> c, rows |-> Written(c)]
            /\ saves' = [saves EXCEPT ![c].pc = "rollback", ![c].pending = {}]
       ELSE /\ ingest_tx' = [session |-> c, rows |-> Written(c) \cup saves[c].pending]
            /\ saves' = [saves EXCEPT ![c].pc = saves[c].next, ![c].pending = {},
                                      ![c].next = ""]
    /\ UNCHANGED << batch, unique_articles, stored, ingest_pc >>
    /\ IngestFrame

(* The ROLLBACK after the failed flush: the rows the session has written    *)
(* are dropped, and the exception leaves save_articles and the route.       *)
RollbackReturns(c) ==
    /\ saves[c].pc = "rollback"
    /\ ingest_tx.session = c
    /\ ingest_tx' = NoWriter
    /\ saves' = [saves EXCEPT ![c].pc = "IntegrityError", ![c].next = ""]
    /\ UNCHANGED << batch, unique_articles, stored, ingest_pc >>
    /\ IngestFrame

(* The COMMIT of line 57 returns and save_articles returns saved_count: the *)
(* rows the session has written become rows of the table.                   *)
CommitReturns(c) ==
    /\ saves[c].pc = "commit"
    /\ stored' = stored \cup Written(c)
    /\ ingest_tx' = IF ingest_tx.session = c THEN NoWriter ELSE ingest_tx
    /\ saves' = [saves EXCEPT ![c].pc = "returned"]
    /\ UNCHANGED << batch, unique_articles, ingest_pc >>
    /\ IngestFrame

(* A request of another route sends the UPDATE of its flush                 *)
(* (articles.py:147, bookmarks.py:50, 73): it opens the write transaction   *)
(* of its session, which no other session holds.  It writes no source_id.   *)
(* While a save_articles call holds the transaction the UPDATE waits or is  *)
(* refused, and the request has changed nothing.                            *)
WriterUpdates ==
    /\ ingest_tx = NoWriter
    /\ ingest_tx' = [session |-> OtherWriter, rows |-> {}]
    /\ UNCHANGED << batch, unique_articles, stored, saves, ingest_pc >>
    /\ IngestFrame

(* The COMMIT of the request (articles.py:147, bookmarks.py:50, 80), or the *)
(* ROLLBACK after its failed INSERT, ends its write transaction.            *)
WriterEnds ==
    /\ ingest_tx.session = OtherWriter
    /\ ingest_tx' = NoWriter
    /\ UNCHANGED << batch, unique_articles, stored, saves, ingest_pc >>
    /\ IngestFrame

(* The INSERT waited for the writer longer than the busy timeout and raises *)
(* OperationalError; the session has written nothing.                       *)
SaveLockedOut(c) ==
    /\ saves[c].pc = "flush"
    /\ WaitsForWriter(c)
    /\ saves' = [saves EXCEPT ![c].pc = "OperationalError", ![c].pending = {},
                              ![c].next = ""]
    /\ UNCHANGED << batch, unique_articles, stored, ingest_tx, ingest_pc >>
    /\ IngestFrame

IngestNext ==
    \/ Deduplicate
    \/ SaveArticles
    \/ SaveArticlesAgain
    \/ OtherRefreshSaves
    \/ \E c \in SaveCalls : SelectReturns(c)
    \/ \E c \in SaveCalls : FlushInserts(c)
    \/ \E c \in SaveCalls : RollbackReturns(c)
    \/ \E c \in SaveCalls : CommitReturns(c)
    \/ \E c \in SaveCalls : SaveLockedOut(c)
    \/ WriterUpdates
    \/ WriterEnds

IngestSpec == IngestInit /\ [][IngestNext]_vars

(* u is a subsequence of b: its elements appear in b in the same order. *)
RECURSIVE IsSubsequence(_, _)
IsSubsequence(u, b) ==
    IF u = << >> THEN TRUE
    ELSE IF b = << >> THEN FALSE
    ELSE IF Head(u) = Head(b) THEN IsSubsequence(Tail(u), Tail(b))
    ELSE IsSubsequence(u, Tail(b))

(* Two titles whose normalized word sets overlap by more than 80% of the    *)
(* larger set.                                                              *)
OverlapAbove80(t1, t2) ==
    LET w1 == words_of(normalized_title(t1))
        w2 == words_of(normalized_title(t2))
    IN  /\ w1 # {} /\ w2 # {}
        /\ \/ (Cardinality(w1) >= Cardinality(w2)
                 /\ 5 * Cardinality(w1 \cap w2) > 4 * Cardinality(w1))
           \/ (Cardinality(w2) >= Cardinality(w1)
                 /\ 5 * Cardinality(w1 \cap w2) > 4 * Cardinality(w2))

(* C30: deduplicate_articles returns an order-preserving subsequence of its *)
(* input that contains the first input article, has pairwise distinct       *)
(* source_id and no two titles whose normalized word sets overlap by more   *)
(* than 80% of the larger set; applying it to its own output changes        *)
(* nothing; and once save_articles has saved the deduplicated batch, every  *)
(* article of it has a row and saving the same batch a second time adds no  *)
(* article, writes no row and returns 0, whatever another refresh request   *)
(* does in between.                                                         *)
C30_DeduplicateThenSaveTwice ==
    /\ [][Deduplicate
            => /\ IsSubsequence(unique_articles', batch)
               /\ batch # << >> =>
                    (unique_articles' # << >> /\ unique_articles'[1] = batch[1])
               /\ \A i, j \in 1..Len(unique_articles') :
                     i # j =>
                        /\ unique_articles'[i].source_id # unique_articles'[j].source_id
                        /\ ~OverlapAbove80(unique_articles'[i].title,
                                           unique_articles'[j].title)
               /\ deduplicate_articles(unique_articles') = unique_articles'
       ]_vars
    /\ [](saves["first"].pc = "returned"
            => /\ \A i \in 1..Len(unique_articles) :
                     unique_articles[i].source_id \in stored
               /\ saves["second"].pc \in {"idle", "select", "commit", "returned"}
               /\ saves["second"].pending = {}
               /\ saves["second"].saved_count = 0
               /\ ingest_tx.session # "second")
    /\ [][(saves["first"].pc = "returned"
             /\ (SelectReturns("second") \/ FlushInserts("second")
                   \/ CommitReturns("second")))
            => stored' = stored
       ]_vars

(* A batch of three articles of which deduplication dropped one (5 of its 6 *)
(* title words are those of a kept title) and kept one whose 4 title words  *)
(* are exactly 80% of another's: the first save stored both and returned 2, *)
(* the second returned 0, and the other refresh, which had found one of the *)
(* two articles missing before the first save committed, was refused its    *)
(* row by the unique index when its INSERT ran, and rolled back.            *)
C30_Witness ==
    /\ Len(batch) = 3
    /\ batch[1].title = TitleScalingShort
    /\ batch[2].title = TitleScaling
    /\ batch[3].title = TitleLaws
    /\ Len(unique_articles) = 2
    /\ unique_articles[2] = batch[3]
    /\ saves["first"].pc = "returned" /\ saves["first"].saved_count = 2
    /\ saves["second"].pc = "returned" /\ saves["second"].saved_count = 0
    /\ saves["other"].pc = "IntegrityError"
    /\ stored = {"arxiv:2401.00001", "arxiv:2401.00002"}

-----------------------------------------------------------------------------
(* The worker pool: self.executor = ThreadPoolExecutor(max_workers=3)       *)
(* (agent.py:49) of the one service object (research_agent/__init__.py:4).  *)
(* Every provider call of search, _fallback_search and search_source is     *)
(* handed to loop.run_in_executor with self.executor (agent.py:168-171,     *)
(* 225-238, 277).  run_in_executor submits the call at once               *)
(* (concurrent/futures/thread.py, submit and _adjust_thread_count): the     *)
(* executor queues it and, unless it can take a unit of its idle semaphore, *)
(* starts a worker thread when it has fewer than max_workers.  A worker     *)
(* thread (_worker) takes the oldest queued call, runs it to its return,    *)
(* which completes the future of the call, then releases one unit of the    *)
(* idle semaphore, and takes the next.  The worker threads run while the    *)
(* event loop runs, so between two submissions of one fan-out a thread may  *)
(* take a call or a call may return, but no other request takes a step: the *)
(* code of lines 210-241 has no await before gather.                        *)

(* agent.py:49 *)
max_workers == 3

(* Calls submitted in one behaviour of the model, at most. *)
MaxSubmitted == 10

(* Requests in one behaviour of the model, and tool requests the loop of    *)
(* one request dispatches, at most.                                         *)
MaxCallers == 2
MaxLoopCalls == 1

Callers == 1..MaxCallers

(* The executor every dispatch site passes: the attribute of the one        *)
(* service object.                                                          *)
Executors == {"self.executor"}

(* The providers whose outbound request carries a timeout:                  *)
(* tools/semantic_scholar.py:16, huggingface.py:17, github.py:22,           *)
(* papers_with_code.py:12, anthropic.py:13.  search_arxiv, search_wikipedia,*)
(* search_tavily and search_youtube pass none to their client.              *)
TimeoutProviders ==
    {"semantic_scholar", "huggingface", "github", "papers_with_code", "anthropic"}

(* The providers the tool loop and search_source dispatch in the model: one *)
(* without a timeout and one with.                                          *)
DispatchedProviders == {"arxiv", "github"}

(* The keys a process of the pool model runs with: none (a fan-out of 7     *)
(* tasks), all but the video key (8 tasks), all (9 tasks).                  *)
PoolSettings ==
    { Keys(FALSE, FALSE, FALSE), Keys(TRUE, TRUE, FALSE), Keys(TRUE, TRUE, TRUE) }

IdleCaller == [pc |-> "idle", todo |-> << >>, awaited |-> {}, dispatched |-> 0]

(* The calls of executor e that are running. *)
RunningOn(e) == { c \in running : submitted[c].executor = e }

(* The threads of executor e that wait for a call in work_queue.get: those  *)
(* that neither run a call nor are on their way from a returned call to the *)
(* release of the semaphore.                                                *)
WaitingThreads(e) == threads[e] - Cardinality(RunningOn(e)) - reporting[e]

(* The event loop runs one request at a time: while a request is between    *)
(* two submissions of its fan-out no other request takes a step.            *)
LoopFree(r) == \A d \in Callers \ {r} : callers[d].pc # "submitting"

PoolFrame ==
    UNCHANGED << agent_vars, conc_vars, anthropic_vars, abstract_vars,
                 bookmark_vars, ingest_vars >>

(* loop.run_in_executor(executor, fn, ...) by request r: submit puts the    *)
(* call on the queue of the executor, and _adjust_thread_count takes a unit *)
(* of the idle semaphore if it has one (_idle_semaphore.acquire(timeout=0)) *)
(* and otherwise starts a thread unless max_workers threads exist.          *)
run_in_executor(executor, fn, r) ==
    /\ submitted' = Append(submitted, [provider |-> fn, executor |-> executor,
                                       caller |-> r])
    /\ work_queue' = [work_queue EXCEPT ![executor] = Append(@, Len(submitted) + 1)]
    /\ IF idle_semaphore[executor] > 0
       THEN /\ idle_semaphore' = [idle_semaphore EXCEPT ![executor] = @ - 1]
            /\ threads' = threads
       ELSE /\ idle_semaphore' = idle_semaphore
            /\ threads' = [threads EXCEPT ![executor] =
                              IF @ < max_workers THEN @ + 1 ELSE @]
    /\ UNCHANGED << running, stalled, reporting, finished >>
    /\ PoolFrame

(* agent.py:168-171: a request in the tool loop submits the call of one     *)
(* tool request and awaits it.                                              *)
ToolCallSubmitted(r, fn) ==
    /\ callers[r].pc \in {"idle", "search"}
    /\ LoopFree(r)
    /\ settings.groq_api_key
    /\ callers[r].dispatched < MaxLoopCalls
    /\ Len(submitted) < MaxSubmitted
    /\ run_in_executor("self.executor", fn, r)
    /\ callers' = [callers EXCEPT ![r] =
           [pc |-> "await_tool", todo |-> << >>, awaited |-> {Len(submitted) + 1},
            dispatched |-> @.dispatched + 1]]

(* The awaited call returned: the loop goes on to its next await. *)
ToolCallAwaited(r) ==
    /\ callers[r].pc = "await_tool"
    /\ LoopFree(r)
    /\ callers[r].awaited \subseteq finished
    /\ callers' = [callers EXCEPT ![r] =
           [@ EXCEPT !.pc = "search", !.awaited = {}]]
    /\ UNCHANGED << submitted, work_queue, threads, idle_semaphore, running, stalled,
                    reporting, finished >>
    /\ PoolFrame

(* search() returns without a fan-out: the LLM answered. *)
SearchAnswered(r) ==
    /\ callers[r].pc = "search"
    /\ LoopFree(r)
    /\ callers' = [callers EXCEPT ![r] =
           [@ EXCEPT !.pc = "done", !.awaited = {}]]
    /\ UNCHANGED << submitted, work_queue, threads, idle_semaphore, running, stalled,
                    reporting, finished >>
    /\ PoolFrame

(* _fallback_search, lines 210-225: a request without an LLM client, or     *)
(* whose LLM call failed, submits the first task of its fan-out.            *)
FallbackSubmitsFirst(r) ==
    /\ callers[r].pc \in {"idle", "search"}
    /\ LoopFree(r)
    /\ Len(submitted) + Len(FallbackTaskNames) <= MaxSubmitted
    /\ run_in_executor("self.executor", Head(FallbackTaskNames), r)
    /\ callers' = [callers EXCEPT ![r] =
           [@ EXCEPT !.pc = "submitting", !.todo = Tail(FallbackTaskNames),
                     !.awaited = {Len(submitted) + 1}]]

(* Lines 225-239: the next task of the fan-out is submitted; after the last *)
(* the request awaits them all, line 241.                                   *)
FallbackSubmitsNext(r) ==
    /\ callers[r].pc = "submitting"
    /\ run_in_executor("self.executor", Head(callers[r].todo), r)
    /\ callers' = [callers EXCEPT ![r] =
           [@ EXCEPT !.pc = IF Len(callers[r].todo) = 1 THEN "gather" ELSE "submitting",
                     !.todo = Tail(callers[r].todo),
                     !.awaited = callers[r].awaited \cup {Len(submitted) + 1}]]

(* Line 241: every task of the fan-out returned. *)
FallbackGathered(r) ==
    /\ callers[r].pc = "gather"
    /\ LoopFree(r)
    /\ callers[r].awaited \subseteq finished
    /\ callers' = [callers EXCEPT ![r] =
           [@ EXCEPT !.pc = "done", !.awaited = {}]]
    /\ UNCHANGED << submitted, work_queue, threads, idle_semaphore, running, stalled,
                    reporting, finished >>
    /\ PoolFrame

(* agent.py:277: a search_source request submits its one call and awaits it *)
SourceCallSubmitted(r, fn) ==
    /\ callers[r].pc = "idle"
    /\ LoopFree(r)
    /\ Len(submitted) < MaxSubmitted
    /\ run_in_executor("self.executor", fn, r)
    /\ callers' = [callers EXCEPT ![r] =
           [@ EXCEPT !.pc = "await_source", !.awaited = {Len(submitted) + 1}]]

(* Lines 279-284: the call returned and search_source returns. *)
SourceCallAwaited(r) ==
    /\ callers[r].pc = "await_source"
    /\ LoopFree(r)
    /\ callers[r].awaited \subseteq finished
    /\ callers' = [callers EXCEPT ![r] =
           [@ EXCEPT !.pc = "done", !.awaited = {}]]
    /\ UNCHANGED << submitted, work_queue, threads, idle_semaphore, running, stalled,
                    reporting, finished >>
    /\ PoolFrame

(* _worker, work_queue.get(block=True) and work_item.run(): a waiting       *)
(* worker thread of executor e takes its oldest queued call and runs it.    *)
WorkerTakes(e) ==
    /\ WaitingThreads(e) > 0
    /\ work_queue[e] # << >>
    /\ running' = running \cup {Head(work_queue[e])}
    /\ work_queue' = [work_queue EXCEPT ![e] = Tail(@)]
    /\ UNCHANGED << callers, submitted, threads, idle_semaphore, stalled, reporting,
                    finished >>
    /\ PoolFrame

(* The upstream service of a running call accepts the request and never     *)
(* answers: a provider that passes no timeout waits for it without end.     *)
CallStalls(c) ==
    /\ c \in running \ stalled
    /\ submitted[c].provider \notin TimeoutProviders
    /\ stalled' = stalled \cup {c}
    /\ UNCHANGED << callers, submitted, work_queue, threads, idle_semaphore, running,
                    reporting, finished >>
    /\ PoolFrame

(* The provider function of call c returns: its request was answered, or    *)
(* failed or timed out and the provider caught the exception.  work_item    *)
(* .run() sets the result of the future, which wakes the request that       *)
(* awaits it; the thread has yet to release the idle semaphore.             *)
CallReturns(c) ==
    /\ c \in running \ stalled
    /\ running' = running \ {c}
    /\ reporting' = [reporting EXCEPT ![submitted[c].executor] = @ + 1]
    /\ finished' = finished \cup {c}
    /\ UNCHANGED << callers, submitted, work_queue, threads, idle_semaphore, stalled >>
    /\ PoolFrame

(* _worker after work_item.run(): a thread of executor e whose call has     *)
(* returned releases one unit of the idle semaphore and goes back to wait   *)
(* for a call.                                                              *)
WorkerReportsIdle(e) ==
    /\ reporting[e] > 0
    /\ reporting' = [reporting EXCEPT ![e] = @ - 1]
    /\ idle_semaphore' = [idle_semaphore EXCEPT ![e] = @ + 1]
    /\ UNCHANGED << callers, submitted, work_queue, threads, running, stalled,
                    finished >>
    /\ PoolFrame

PoolInit ==
    /\ callers = [r \in Callers |-> IdleCaller]
    /\ submitted = << >>
    /\ work_queue = [e \in Executors |-> << >>]
    /\ threads = [e \in Executors |-> 0]
    /\ idle_semaphore = [e \in Executors |-> 0]
    /\ reporting = [e \in Executors |-> 0]
    /\ running = {} /\ stalled = {} /\ finished = {}
    /\ settings \in PoolSettings
    /\ available = [arxiv |-> TRUE, wikipedia |-> TRUE, tavily |-> TRUE,
                    youtube |-> TRUE]
    /\ initialized = FALSE /\ client = FALSE
    /\ AgentFrameUnused
    /\ ConcUnused /\ AnthropicUnused /\ AbstractUnused
    /\ BookmarkUnused /\ IngestUnused

PoolNext ==
    \/ \E r \in Callers, fn \in DispatchedProviders : ToolCallSubmitted(r, fn)
    \/ \E r \in Callers : ToolCallAwaited(r)
    \/ \E r \in Callers : SearchAnswered(r)
    \/ \E r \in Callers : FallbackSubmitsFirst(r)
    \/ \E r \in Callers : FallbackSubmitsNext(r)
    \/ \E r \in Callers : FallbackGathered(r)
    \/ \E r \in Callers, fn \in DispatchedProviders : SourceCallSubmitted(r, fn)
    \/ \E r \in Callers : SourceCallAwaited(r)
    \/ \E e \in Executors : WorkerTakes(e)
    \/ \E c \in 1..MaxSubmitted : CallStalls(c)
    \/ \E c \in 1..MaxSubmitted : CallReturns(c)
    \/ \E e \in Executors : WorkerReportsIdle(e)

PoolSpec == PoolInit /\ [][PoolNext]_vars

(* A waiting thread takes a queued call, a running call whose upstream has  *)
(* not stalled returns, and the thread of a returned call goes on to        *)
(* release the semaphore.                                                   *)
PoolLiveSpec ==
    /\ PoolSpec
    /\ \A e \in Executors : WF_vars(WorkerTakes(e))
    /\ \A c \in 1..MaxSubmitted : WF_vars(CallReturns(c))
    /\ \A e \in Executors : WF_vars(WorkerReportsIdle(e))

(* The calls waiting in a queue. *)
Queued ==
    UNION { { work_queue[e][i] : i \in 1..Len(work_queue[e]) } : e \in DOMAIN work_queue }

(* C23: at every moment at most 3 provider calls are executing, whichever   *)
(* of the tool loop, the fallback fan-out and search_source submitted them, *)
(* and every submitted call is eventually executed: a call that waits in    *)
(* the queue is at some later moment running or has returned.               *)
C23_AtMostThreeExecuting ==
    /\ [](Cardinality(running) <= 3)
    /\ \A c \in 1..MaxSubmitted : (c \in Queued) ~> (c \in running \cup finished)

(* Three calls are executing while the rest of a nine-call fan-out and the  *)
(* call of a search_source request wait in the queue.                       *)
C23_Witness ==
    /\ Cardinality(running) = 3
    /\ Len(submitted) = 10
    /\ Len(work_queue["self.executor"]) = 7
    /\ finished = {}
    /\ \E r, d \in Callers : callers[r].pc = "gather" /\ callers[d].pc = "await_source"

-----------------------------------------------------------------------------
(* The bookmark routes: add_bookmark (routers/bookmarks.py:29-52) and       *)
(* remove_bookmark (55-82) on the tables articles (models/article.py) and   *)
(* bookmarks (models/bookmark.py), each request in its own database session *)
(* (database.py:23-28).  The database is SQLite (config.py:10): one write   *)
(* transaction at a time, opened by the first UPDATE, INSERT or DELETE of a *)
(* session and held until its COMMIT or ROLLBACK; a SELECT of another       *)
(* session meanwhile reads the committed rows.  A session flushes its       *)
(* pending changes before a query and at commit, and awaits each statement: *)
(* a step below is one statement.  The other routes that write to the       *)
(* database, summarize_article (routers/articles.py:121-150) and the        *)
(* refresh routes through save_articles (routers/sources.py:18-58), are     *)
(* followed from their first statement that writes to their COMMIT, one     *)
(* such request at a time: a second one waits or is refused and has changed *)
(* nothing.  Of the rows of articles the model keeps the id and the column  *)
(* is_bookmarked.                                                           *)

(* Requests in flight at once, at most. *)
MaxSessions == 2

(* Largest id of a bookmarks row in the model: add_bookmark is admitted     *)
(* while the rows of the requests in flight stay within it.                 *)
MaxRowId == 3

(* The articles of the table at the start. *)
ArticleIds == {1, 2}

(* article_id of a request: an article of the table at the start, or 3,     *)
(* which is missing until a refresh request has stored an article.          *)
RequestedIds == ArticleIds \cup {3}

Sessions == 1..MaxSessions

(* The session of the request of another route that writes. *)
OtherSession == MaxSessions + 1

NoTransaction == [session |-> 0]

IdleSession(r) == [pc |-> "idle", response |-> r]

(* The rows of bookmarks that reference article a. *)
BookmarksOf(rows, a) == { b \in rows : b.article_id = a }

LargestRowId(rows) ==
    IF rows = {} THEN 0
    ELSE CHOOSE i \in { b.id : b \in rows } : \A b \in rows : b.id <= i

(* The id of an inserted row: one more than the largest id of the table *)
NextRowId(rows) == LargestRowId(rows) + 1

(* The id of an inserted article: one more than the largest id of articles, *)
(* of which no row is ever deleted.                                         *)
NextArticleId(articles) ==
    (CHOOSE i \in DOMAIN articles : \A j \in DOMAIN articles : j <= i) + 1

(* bookmarks without the unique constraint on article_id. *)
UniqueViolation_unconstrained(rows, a) == FALSE

(* models/bookmark.py:11, unique=True: the insert of a second row for the   *)
(* article fails.                                                           *)
UniqueViolation(rows, a) == BookmarksOf(rows, a) # {}

BookmarkInit ==
    /\ db = [articles |-> [a \in ArticleIds |-> FALSE], bookmarks |-> {}]
    /\ tx = NoTransaction
    /\ sessions = [s \in Sessions |-> IdleSession("none")]
    /\ AgentUnused /\ PoolUnused /\ ConcUnused /\ AnthropicUnused
    /\ AbstractUnused /\ IngestUnused

BookmarkFrame ==
    UNCHANGED << agent_vars, pool_vars, conc_vars, anthropic_vars, abstract_vars,
                 ingest_vars >>

(* The add_bookmark requests between their select and their commit. *)
AddsInFlight ==
    { s \in Sessions : sessions[s].pc # "idle" /\ sessions[s].route = "add" }

(* Lines 35-42 and 61-68: the article is selected; a missing article is     *)
(* answered 404, an article that already is (add) or is not (remove)        *)
(* bookmarked is answered without a write.                                  *)
LoadArticle(s, route, a) ==
    /\ sessions[s].pc = "idle"
    /\ (route = "add" /\ a \in DOMAIN db.articles /\ ~db.articles[a])
         => LargestRowId(db.bookmarks) + Cardinality(AddsInFlight) < MaxRowId
    /\ sessions' = [sessions EXCEPT ![s] =
         IF a \notin DOMAIN db.articles THEN IdleSession("Article not found")
         ELSE IF route = "add" /\ db.articles[a]
              THEN IdleSession("Article already bookmarked")
         ELSE IF route = "remove" /\ ~db.articles[a]
              THEN IdleSession("Article not bookmarked")
         ELSE [pc |-> "loaded", route |-> route, article_id |-> a]]
    /\ UNCHANGED << db, tx >>
    /\ BookmarkFrame

(* The UPDATE of articles that writes the flag set in line 44 (True) or 70  *)
(* (False), the first statement of the flush of line 50 or of the flush     *)
(* before the select of lines 73-75.  It opens the write transaction of the *)
(* session, which no other session holds.                                   *)
UpdateArticle(s) ==
    /\ sessions[s].pc = "loaded"
    /\ tx = NoTransaction
    /\ LET a == sessions[s].article_id
       IN  tx' = [session |-> s,
                  articles |-> [db.articles EXCEPT ![a] = (sessions[s].route = "add")],
                  bookmarks |-> db.bookmarks]
    /\ sessions' = [sessions EXCEPT ![s].pc = "updated"]
    /\ UNCHANGED db
    /\ BookmarkFrame

(* The INSERT of the row added in lines 47-48, the second statement of the  *)
(* flush of line 50.  A second row for the article raises IntegrityError,   *)
(* with the write transaction still open.                                   *)
AddBookmarkInserts(s) ==
    /\ sessions[s].pc = "updated" /\ sessions[s].route = "add"
    /\ tx.session = s
    /\ LET a == sessions[s].article_id
       IN  IF UniqueViolation(tx.bookmarks, a)
           THEN /\ tx' = tx
                /\ sessions' = [sessions EXCEPT ![s].pc = "failed"]
           ELSE /\ tx' = [tx EXCEPT !.bookmarks =
                            @ \cup {[id |-> NextRowId(tx.bookmarks), article_id |-> a]}]
                /\ sessions' = [sessions EXCEPT ![s].pc = "flushed"]
    /\ UNCHANGED db
    /\ BookmarkFrame

(* The ROLLBACK after the failed flush: the changes of the transaction are  *)
(* dropped and the exception leaves add_bookmark.                           *)
AddBookmarkRollsBack(s) ==
    /\ sessions[s].pc = "failed"
    /\ tx.session = s
    /\ tx' = NoTransaction
    /\ sessions' = [sessions EXCEPT ![s] = IdleSession("IntegrityError")]
    /\ UNCHANGED db
    /\ BookmarkFrame

(* Lines 73-75: the select of the bookmark, inside the transaction. *)
RemoveBookmarkSelects(s) ==
    /\ sessions[s].pc = "updated" /\ sessions[s].route = "remove"
    /\ tx.session = s
    /\ sessions' = [sessions EXCEPT ![s] =
           [pc |-> IF BookmarksOf(tx.bookmarks, @.article_id) = {}
                   THEN "flushed" ELSE "selected",
            route |-> "remove", article_id |-> @.article_id,
            bookmark |-> BookmarksOf(tx.bookmarks, @.article_id)]]
    /\ UNCHANGED << db, tx >>
    /\ BookmarkFrame

(* Lines 77-78 and the flush of line 80: the DELETE of the selected row. *)
RemoveBookmarkDeletes(s) ==
    /\ sessions[s].pc = "selected"
    /\ tx.session = s
    /\ tx' = [tx EXCEPT !.bookmarks = @ \ sessions[s].bookmark]
    /\ sessions' = [sessions EXCEPT ![s].pc = "flushed"]
    /\ UNCHANGED db
    /\ BookmarkFrame

(* The COMMIT of line 50 or 80 and the answer of line 52 or 82: the rows of *)
(* the transaction become the committed rows.                               *)
Commit(s) ==
    /\ sessions[s].pc = "flushed"
    /\ tx.session = s
    /\ db' = [articles |-> tx.articles, bookmarks |-> tx.bookmarks]
    /\ tx' = NoTransaction
    /\ sessions' = [sessions EXCEPT ![s] =
           IdleSession(IF @.route = "add" THEN "Article bookmarked"
                       ELSE "Bookmark removed")]
    /\ BookmarkFrame

(* summarize_article, articles.py:146-147: the UPDATE that writes the        *)
(* summary, the one statement of the flush of line 147.  It opens the write *)
(* transaction of the session of the request, which no other session holds, *)
(* and changes no is_bookmarked.                                            *)
SummarizeArticleUpdates ==
    /\ tx = NoTransaction
    /\ tx' = [session |-> OtherSession, articles |-> db.articles,
              bookmarks |-> db.bookmarks]
    /\ UNCHANGED << db, sessions >>
    /\ BookmarkFrame

(* save_articles, sources.py:41-57: the INSERT of an article whose          *)
(* source_id the SELECT of line 24 did not find, the flush of line 57.  It  *)
(* opens the write transaction of the session of the refresh request; the   *)
(* row is not bookmarked (models/article.py:22).  The refresh requests of   *)
(* the model store one article.                                             *)
SaveArticlesInserts ==
    /\ tx = NoTransaction
    /\ DOMAIN db.articles = ArticleIds
    /\ tx' = [session |-> OtherSession,
              articles |-> [a \in ArticleIds \cup {NextArticleId(db.articles)} |->
                               IF a \in ArticleIds THEN db.articles[a] ELSE FALSE],
              bookmarks |-> db.bookmarks]
    /\ UNCHANGED << db, sessions >>
    /\ BookmarkFrame

(* The COMMIT of articles.py:147 or sources.py:57: the rows of the          *)
(* transaction become the committed rows.                                   *)
OtherWriterCommits ==
    /\ tx # NoTransaction
    /\ tx.session = OtherSession
    /\ db' = [articles |-> tx.articles, bookmarks |-> tx.bookmarks]
    /\ tx' = NoTransaction
    /\ UNCHANGED sessions
    /\ BookmarkFrame

(* The UPDATE finds the database locked by the transaction of another       *)
(* session for longer than the busy timeout and raises OperationalError.    *)
WriteLockedOut(s) ==
    /\ sessions[s].pc = "loaded"
    /\ tx # NoTransaction
    /\ sessions' = [sessions EXCEPT ![s] = IdleSession("OperationalError")]
    /\ UNCHANGED << db, tx >>
    /\ BookmarkFrame

BookmarkNext ==
    \/ \E s \in Sessions, a \in RequestedIds : LoadArticle(s, "add", a)
    \/ \E s \in Sessions, a \in RequestedIds : LoadArticle(s, "remove", a)
    \/ \E s \in Sessions : UpdateArticle(s)
    \/ \E s \in Sessions : AddBookmarkInserts(s)
    \/ \E s \in Sessions : AddBookmarkRollsBack(s)
    \/ \E s \in Sessions : RemoveBookmarkSelects(s)
    \/ \E s \in Sessions : RemoveBookmarkDeletes(s)
    \/ \E s \in Sessions : Commit(s)
    \/ \E s \in Sessions : WriteLockedOut(s)
    \/ SummarizeArticleUpdates
    \/ SaveArticlesInserts
    \/ OtherWriterCommits

BookmarkSpec == BookmarkInit /\ [][BookmarkNext]_vars

(* C29: in every committed state an article is flagged is_bookmarked        *)
(* exactly when one bookmarks row references it, and never two rows do;     *)
(* add_bookmark on a bookmarked article and remove_bookmark on an article   *)
(* that is not bookmarked change nothing, and both answer 'not found' for a *)
(* missing article, also without a change.                                  *)
C29_FlagIffOneRow ==
    /\ [](\A a \in DOMAIN db.articles :
             /\ Cardinality(BookmarksOf(db.bookmarks, a)) <= 1
             /\ db.articles[a] <=> Cardinality(BookmarksOf(db.bookmarks, a)) = 1)
    /\ [][\A s \in Sessions, a \in RequestedIds :
            /\ (a \in DOMAIN db.articles /\ db.articles[a] /\ LoadArticle(s, "add", a))
                 => (db' = db /\ tx' = tx /\ sessions'[s].pc = "idle")
            /\ (a \in DOMAIN db.articles /\ ~db.articles[a]
                   /\ LoadArticle(s, "remove", a))
                 => (db' = db /\ tx' = tx /\ sessions'[s].pc = "idle")
            /\ (a \notin DOMAIN db.articles
                   /\ (LoadArticle(s, "add", a) \/ LoadArticle(s, "remove", a)))
                 => (db' = db /\ sessions'[s].response = "Article not found")
       ]_vars

(* Two add_bookmark requests for one article overlapped: the first          *)
(* committed, the insert of the second was refused inside its write         *)
(* transaction, which was rolled back, and the article is flagged with its  *)
(* one row, as are the other article and the article a refresh request has  *)
(* stored meanwhile.                                                        *)
C29_Witness ==
    /\ sessions[1].pc = "idle" /\ sessions[1].response = "Article bookmarked"
    /\ sessions[2].pc = "idle" /\ sessions[2].response = "IntegrityError"
    /\ DOMAIN db.articles = {1, 2, 3}
    /\ \A a \in DOMAIN db.articles : db.articles[a]
    /\ Cardinality(db.bookmarks) = 3

-----------------------------------------------------------------------------
(* Requests in flight together on the one service object.  The event loop  *)
(* runs one coroutine at a time and switches between them at the awaits of  *)
(* search(), _fallback_search() and search_source(): the chat completion of *)
(* lines 118 and 188, run_in_executor of lines 168 and 277 and gather of    *)
(* line 241.  A step below is the code of one request between two of its    *)
(* awaits.  A dict or a *)
(* list lives in heap and a local variable holds its index, as a Python     *)
(* name holds a reference.                                                  *)
MaxRequests == 2
MaxTurns == 2

Requests == 1..MaxRequests

(* The query of each request; no two requests ask the same. *)
RequestQueries ==
    << "transformer architecture", "diffusion models", "graph neural networks" >>

(* The source a search_source request names. *)
RequestSources == {"arxiv"}

(* Tool names a reply asks for: a known tool and a name no tool has. *)
RequestToolNames == {"search_arxiv", "search_images"}

(* The providers whose outbound request fails during one fan-out. *)
(* What the providers meet during one fan-out: the ones whose outbound      *)
(* request fails and the ones answered with no entry.                       *)
RequestFanOuts ==
    { [down |-> {}, quiet |-> {}], [down |-> {"arxiv"}, quiet |-> {"wikipedia"}] }

(* What a provider returns depends on the query it was called with. *)
ResultFor(key, up, q) == Provider(key, up) \o " <- " \o q

GatherResultsFor(task_names, down, quiet, q) ==
    [i \in 1..Len(task_names) |->
        ResultFor(task_names[i], UpstreamOf(task_names[i], down, quiet),
                  FallbackQuery(task_names[i], q))]

(* The frame of a request that has not arrived. *)
NoFrame(q) ==
    [pc |-> "idle", query |-> q, source |-> "", all_sources |-> 0, messages |-> 0,
     iteration |-> 0, fn_name |-> "", outcome |-> NoOutcome, script |-> << >>]

(* What the environment did to the request, for the script of its frame. *)
Event(kind, name, up, down, quiet) ==
    [event |-> kind, name |-> name, up |-> up, down |-> down, quiet |-> quiet]

(* obj stored under ref: a new object when ref is one past the heap. *)
Store(h, ref, obj) ==
    IF ref > Len(h) THEN Append(h, obj) ELSE [h EXCEPT ![ref] = obj]

(* One sources dict made at import and handed out by every call. *)
SourcesRef_module_level(h) == 1

(* _empty_sources() builds a dict: an object no other name refers to. *)
SourcesRef(h) == Len(h) + 1

(* The assistant turn and the tool turn of the one request of a reply. *)
RequestCall(f) == [id |-> CallId(f.iteration + 1, 1), name |-> f.fn_name]

ConcInit ==
    /\ settings \in { [groq_api_key |-> g, tavily_api_key |-> FALSE,
                       youtube_api_key |-> FALSE] : g \in Booleans }
    /\ available = [arxiv |-> TRUE, wikipedia |-> TRUE, tavily |-> TRUE,
                    youtube |-> TRUE]
    /\ initialized = FALSE /\ client = FALSE
    /\ AgentFrameUnused
    /\ heap = << >>
    /\ frames = [r \in Requests |-> NoFrame(RequestQueries[r])]
    /\ PoolUnused /\ AnthropicUnused /\ AbstractUnused /\ BookmarkUnused
    /\ IngestUnused

ConcFrame ==
    UNCHANGED << settings, available, pc, op, query, source, iteration, func_map,
                 messages, all_sources, tool_calls, idx, outcome, llm_tool_calls,
                 llm_plain_calls, tool_replies, provider_calls, dispatched,
                 pool_vars, anthropic_vars, abstract_vars, bookmark_vars,
                 ingest_vars >>

(* Lines 100-114 up to the await of line 118, or lines 100-105 and 210-239  *)
(* up to the await of line 241.                                             *)
RequestArrives(r) ==
    /\ frames[r].pc = "idle"
    /\ initialized' = TRUE
    /\ client' = ClientAfterAccess
    /\ IF TakesFallback
       THEN /\ frames' = [frames EXCEPT ![r].pc = "gather",
                              ![r].script = Append(@, Event("fallback", "", "hits", {}, {}))]
            /\ UNCHANGED heap
       ELSE LET sources_ref  == SourcesRef(heap)
                with_sources == Store(heap, sources_ref, _empty_sources)
                messages_ref == Len(with_sources) + 1
            IN  /\ heap' = Append(with_sources,
                                  << SystemTurn, UserTurn(frames[r].query) >>)
                /\ frames' = [frames EXCEPT ![r].pc = "await_llm",
                                  ![r].all_sources = sources_ref,
                                  ![r].messages = messages_ref,
                                  ![r].script = Append(@, Event("loop", "", "hits", {}, {}))]
    /\ ConcFrame

SearchArrives == \E r \in Requests : RequestArrives(r)

(* Lines 126-128 up to the await of line 241. *)
RequestLLMFails(r) ==
    /\ frames[r].pc = "await_llm"
    /\ frames' = [frames EXCEPT ![r].pc = "gather",
                      ![r].script = Append(@, Event("fails", "", "hits", {}, {}))]
    /\ UNCHANGED << heap, initialized, client >>
    /\ ConcFrame

SearchLLMFails == \E r \in Requests : RequestLLMFails(r)

(* Lines 130-139. *)
RequestLLMAnswers(r) ==
    /\ frames[r].pc = "await_llm"
    /\ frames' = [frames EXCEPT ![r].pc = "done",
                      ![r].outcome = TextOutcome(frames[r].query, LLMText,
                                                 heap[frames[r].all_sources]),
                      ![r].script = Append(@, Event("text", "", "hits", {}, {}))]
    /\ UNCHANGED << heap, initialized, client >>
    /\ ConcFrame

SearchLLMAnswers == \E r \in Requests : RequestLLMAnswers(r)

(* The replies that asked for a tool so far, over all requests. *)
TurnsAsked ==
    Cardinality({ << r, k >> \in Requests \X (1..MAX_ITERATIONS) :
                    k <= frames[r].iteration
                         + (IF frames[r].pc = "await_tool" THEN 1 ELSE 0) })

(* fn_name in func_map of line 160. *)
KnownTool(name) ==
    \E i \in 1..Len(_get_available_tools) : _get_available_tools[i] = name

(* A reply with one request.  For a tool of func_map: lines 130-168 up to   *)
(* the await of line 168.  For a name no tool has there is no await: lines  *)
(* 130-156, the else branch of lines 173-180, the end of the pass and the   *)
(* next pass up to the await of line 118.                                   *)
RequestLLMAsksTool(r, name) ==
    /\ frames[r].pc = "await_llm"
    /\ TurnsAsked < MaxTurns
    /\ frames[r].iteration < MAX_ITERATIONS
    /\ LET f == [frames[r] EXCEPT !.fn_name = name]
           asked == Append(heap[f.messages], AssistantTurn(<< RequestCall(f) >>, None))
       IN  IF KnownTool(name)
           THEN /\ heap' = [heap EXCEPT ![f.messages] = asked]
                /\ frames' = [frames EXCEPT ![r] =
                                  [f EXCEPT !.pc = "await_tool",
                                            !.script = Append(@, Event("call", name, "hits", {}, {}))]]
           ELSE /\ heap' = [heap EXCEPT ![f.messages] =
                                Append(asked, ToolTurn(RequestCall(f).id, ErrorDict))]
                /\ frames' = [frames EXCEPT ![r].iteration = @ + 1,
                                  ![r].script = Append(@, Event("call", name, "hits", {}, {}))]
    /\ UNCHANGED << initialized, client >>
    /\ ConcFrame

SearchLLMAsksTool ==
    \E r \in Requests, name \in RequestToolNames : RequestLLMAsksTool(r, name)

(* Lines 168-171 and the next pass up to the await of line 118.  The reply  *)
(* asked for the topic of the conversation it was sent.                     *)
RequestToolReturns(r, up) ==
    /\ frames[r].pc = "await_tool"
    /\ LET f == frames[r]
           result == ResultFor(TOOL_TO_SOURCE_KEY[f.fn_name], up, f.query)
       IN  /\ heap' = [heap EXCEPT
                           ![f.all_sources] = _collect_source(@, f.fn_name, result),
                           ![f.messages] = Append(@, ToolTurn(RequestCall(f).id, result))]
           /\ frames' = [frames EXCEPT ![r].pc = "await_llm",
                             ![r].iteration = @ + 1,
                             ![r].fn_name = "",
                             ![r].script = Append(@, Event("result", f.fn_name, up, {}, {}))]
    /\ UNCHANGED << initialized, client >>
    /\ ConcFrame

SearchToolReturns ==
    \E r \in Requests, up \in Upstream : RequestToolReturns(r, up)

(* Lines 241-252.  The dict of line 243 is filled and returned in this     *)
(* step: a new dict is referred to by the outcome alone, and the heap       *)
(* changes only when the dict is an object it already holds.                *)
RequestGathers(r, down, quiet) ==
    /\ frames[r].pc = "gather"
    /\ LET sources_ref == SourcesRef(heap)
           sources == MergeResults(_empty_sources, FallbackTaskNames,
                          GatherResultsFor(FallbackTaskNames, down, quiet,
                                           frames[r].query))
       IN  /\ heap' = IF sources_ref > Len(heap) THEN heap
                       ELSE Store(heap, sources_ref, sources)
           /\ frames' = [frames EXCEPT ![r].pc = "done",
                             ![r].outcome = FallbackOutcome(frames[r].query, sources),
                             ![r].script = Append(@, Event("gather", "", "hits", down, quiet))]
    /\ UNCHANGED << initialized, client >>
    /\ ConcFrame

SearchGathers ==
    \E r \in Requests, met \in RequestFanOuts :
        RequestGathers(r, met.down, met.quiet)

(* search_source(q, s) up to the await of line 277. *)
RequestSourceArrives(r, s) ==
    /\ frames[r].pc = "idle"
    /\ SourceDispatch(s, frames[r].query).found
    /\ frames' = [frames EXCEPT ![r].pc = "await_source",
                      ![r].source = s,
                      ![r].script = Append(@, Event("source", s, "hits", {}, {}))]
    /\ UNCHANGED << heap, initialized, client >>
    /\ ConcFrame

SearchSourceArrives ==
    \E r \in Requests, s \in RequestSources : RequestSourceArrives(r, s)

(* Lines 277-284. *)
RequestSourceReturns(r, up) ==
    /\ frames[r].pc = "await_source"
    /\ LET entry == SourceDispatch(frames[r].source, frames[r].query)
       IN  frames' = [frames EXCEPT ![r].pc = "done",
                         ![r].outcome =
                             SourceOutcome(frames[r].query, frames[r].source,
                                           ResultFor(entry.fn, up, entry.q)),
                         ![r].script = Append(@, Event("source result", "", up, {}, {}))]
    /\ UNCHANGED << heap, initialized, client >>
    /\ ConcFrame

SearchSourceReturns ==
    \E r \in Requests, up \in Upstream : RequestSourceReturns(r, up)

ConcNext ==
    \/ SearchArrives
    \/ SearchSourceArrives
    \/ SearchSourceReturns
    \/ SearchLLMFails
    \/ SearchLLMAnswers
    \/ SearchLLMAsksTool
    \/ SearchToolReturns
    \/ SearchGathers

ConcSpec == ConcInit /\ [][ConcNext]_vars

(* A request run alone on a service nobody else calls, with the replies and *)
(* provider responses of a script: its conversation, its sources and what   *)
(* it returns.                                                              *)
AloneStart ==
    [messages |-> << >>, all_sources |-> << >>, iteration |-> 0, fn_name |-> "",
     source |-> "", outcome |-> NoOutcome]

AloneStep(q, a, e) ==
    CASE e.event = "loop" ->
           [a EXCEPT !.messages = << SystemTurn, UserTurn(q) >>,
                     !.all_sources = _empty_sources]
      [] e.event = "call" ->
           LET call  == [id |-> CallId(a.iteration + 1, 1), name |-> e.name]
               asked == Append(a.messages, AssistantTurn(<< call >>, None))
           IN  IF KnownTool(e.name)
               THEN [a EXCEPT !.messages = asked, !.fn_name = e.name]
               ELSE [a EXCEPT !.messages = Append(asked, ToolTurn(call.id, ErrorDict)),
                              !.iteration = @ + 1]
      [] e.event = "result" ->
           LET result == ResultFor(TOOL_TO_SOURCE_KEY[a.fn_name], e.up, q)
           IN  [a EXCEPT !.all_sources = _collect_source(@, a.fn_name, result),
                         !.messages =
                             Append(@, ToolTurn(CallId(a.iteration + 1, 1), result)),
                         !.iteration = @ + 1,
                         !.fn_name = ""]
      [] e.event = "text" ->
           [a EXCEPT !.outcome = TextOutcome(q, LLMText, a.all_sources)]
      [] e.event = "source" -> [a EXCEPT !.source = e.name]
      [] e.event = "source result" ->
           [a EXCEPT !.outcome =
               SourceOutcome(q, a.source,
                   ResultFor(SourceDispatch(a.source, q).fn, e.up,
                             SourceDispatch(a.source, q).q))]
      [] e.event = "gather" ->
           [a EXCEPT !.outcome =
               FallbackOutcome(q,
                   MergeResults(_empty_sources, FallbackTaskNames,
                       GatherResultsFor(FallbackTaskNames, e.down, e.quiet, q)))]
      [] OTHER -> a

RECURSIVE AloneRun(_, _, _)
AloneRun(q, script, a) ==
    IF script = << >> THEN a
    ELSE AloneRun(q, Tail(script), AloneStep(q, a, Head(script)))

Alone(r) == AloneRun(frames[r].query, frames[r].script, AloneStart)

InLoop(r) == frames[r].pc \in {"await_llm", "await_tool"}

(* C24: Concurrent search requests on the one service do not interfere.     *)
(* For any interleaving of the requests, search_source requests among them, *)
(* a request inside the tool loop holds a conversation and a sources dict   *)
(* no other request refers to, their contents are the turns and results its *)
(* own replies and tool calls produce when it runs alone, and what a        *)
(* request returns equals what it returns running alone with the same       *)
(* replies and provider responses.                                          *)
C24_RequestsDoNotInterfere ==
    \A r \in Requests :
        LET alone == Alone(r)
        IN  /\ InLoop(r) =>
                  /\ heap[frames[r].messages] = alone.messages
                  /\ heap[frames[r].all_sources] = alone.all_sources
                  /\ \A other \in Requests \ {r} :
                        /\ frames[other].all_sources # frames[r].all_sources
                        /\ frames[other].messages # frames[r].messages
            /\ frames[r].pc = "done" => frames[r].outcome = alone.outcome

(* Two requests are inside the tool loop together, each holding the result  *)
(* of its own arXiv call and a conversation of four turns.                  *)
C24_Witness ==
    /\ InLoop(1) /\ InLoop(2)
    /\ frames[1].iteration = 1 /\ frames[2].iteration = 1
    /\ heap[frames[1].all_sources]["arxiv"] = ResultFor("arxiv", "hits", RequestQueries[1])
    /\ heap[frames[2].all_sources]["arxiv"] = ResultFor("arxiv", "hits", RequestQueries[2])
    /\ Len(heap[frames[1].messages]) = 4
    /\ Len(heap[frames[2].messages]) = 4

=============================================================================
